---- MODULE Spec2Model ----
(***************************************************************************)
(* Execution Engine Coordinator of the beacon node                         *)
(* (beacon-chain/blockchain/execution_engine.go): notifyForkchoiceUpdate   *)
(* with its recursive invalid-head recovery, notifyNewPayload and          *)
(* pruneInvalidBlock, over a fork-choice store, the block / state / blob   *)
(* stores, the payload-id cache and the metrics counters.                  *)
(*                                                                         *)
(* notifyForkchoiceUpdate is modelled step by step with an explicit call   *)
(* stack (the Go code recurses); the steps of one call follow the          *)
(* statement order of the source, and the answers of the engine, of        *)
(* fork-choice and of the stores are chosen nondeterministically.          *)
(*                                                                         *)
(* The other components have a specification each, over their own          *)
(* variables, with the rest of the node at rest:                           *)
(*   SpecAttribute  getPayloadAttribute (execution_engine.go)              *)
(*   SpecRecord     updateSubnetRecordWithMetadata(V2) (p2p/subnets.go)    *)
(*   SpecFind       FindPeersWithSubnet (p2p/subnets.go); FairSpecFind is  *)
(*                  SpecFind with the fairness of its steps                *)
(*   SpecLocker     subnetLocker (p2p/subnets.go)                          *)
(*   SpecSubnets    computeSubscribedSubnets (p2p/subnets.go)              *)
(*   SpecPersist    initializePersistentSubnets (p2p/subnets.go)           *)
(*   SpecHasPeer    hasPeerWithSubnet (p2p/subnets.go)                     *)
(***************************************************************************)
EXTENDS Integers, Sequences, FiniteSets, TLC

(* ------------------------------ bounds -------------------------------- *)
MaxRoots == 4
MaxSlot == 1
MaxCalls == 1

(* --------------------------- program constants ------------------------ *)
HashLen == 32

(* runtime/version: the ordered fork levels *)
Versions == <<"Phase0", "Altair", "Bellatrix", "Capella", "Deneb", "Electra">>
VersionIndex(v) == CHOOSE i \in 1..Len(Versions) : Versions[i] = v
VersionLess(a, b) == VersionIndex(a) < VersionIndex(b)

(* ------------------------------ roots --------------------------------- *)
(* Block roots are 1..MaxRoots, 0 is the zero root.  The block tree is the *)
(* binary heap shape: the parent of r is r div 2, root 1 is the (pre-merge)*)
(* anchor block whose parent is the zero root.                             *)
Roots == 1..MaxRoots
ParentRoot(r) == r \div 2
RECURSIVE IsDescendant(_, _)
IsDescendant(d, a) ==
    IF d = a THEN TRUE
    ELSE IF d < a \/ d = 0 THEN FALSE
    ELSE IsDescendant(ParentRoot(d), a)

(* the block stored under a root: the anchor carries no execution payload *)
BlockOf(r) == IF r = 1 THEN "preMerge" ELSE "exec"

(* ------------------------------ bytes --------------------------------- *)
Hash(b) == [i \in 1..HashLen |-> b]
ZeroHash == Hash(0)
PadTo(b, size) ==
    IF Len(b) >= size THEN b
    ELSE [i \in 1..size |-> IF i <= Len(b) THEN b[i] ELSE 0]
ToBytes32(x) == [i \in 1..HashLen |-> IF i <= Len(x) THEN x[i] ELSE 0]
defaultLatestValidHash == PadTo(<<255>>, HashLen)

(* payload ids: the empty sequence is the nil id *)
NilPid == <<>>
PayloadIDs == {<<1>>, <<2>>}
(* last-valid hashes the engine may report: none, or a full hash *)
EngineLVHs == {<<>>, Hash(204)}

(* ------------------------------ errors -------------------------------- *)
MkErr(kind, root, roots, lvh, cause) ==
    [kind |-> kind, root |-> root, invalidAncestorRoots |-> roots,
     lastValidHash |-> lvh, cause |-> cause]
NoErr == MkErr("nil", 0, <<>>, <<>>, "")
BareErr(kind) == MkErr(kind, 0, <<>>, <<>>, "")

VARIABLES
    stack,          \* call stack of notifyForkchoiceUpdate, innermost last
    fcNodes,        \* roots present in the fork-choice store
    fcValid,        \* roots fork-choice holds as valid (not optimistic)
    beaconDB,       \* roots whose block (and state) the database holds
    stateCaches,    \* roots whose state the state caches hold
    blobStorage,    \* roots with blobs in blob storage
    payloadIDCache, \* the entries <<slot, root, payload id>>, one per (slot, root)
    canonicalHead,  \* the head pointer written by saveHead
    currentSlot,    \* s.CurrentSlot()
    metrics,        \* the six node-count counters
    ret,            \* what the last returned call was given and returned
    setInvalidArgs, \* what SetOptimisticToInvalid was last called with
    ncalls          \* top-level operations invoked so far

vars == <<stack, fcNodes, fcValid, beaconDB, stateCaches, blobStorage,
          payloadIDCache, canonicalHead, currentSlot, metrics, ret,
          setInvalidArgs, ncalls>>

stores == <<beaconDB, stateCaches, blobStorage>>

(* the state of the other components, each at rest while another runs *)
VARIABLES
    gpa,            \* the getPayloadAttribute call: its inputs, then its result
    localNode,      \* the subnet entries of dv5Listener.LocalNode()'s record
    metaData,       \* s.metaData
    updaters,       \* the callers of updateSubnetRecordWithMetadata(V2)
    updates,        \* the completed record updates: how many, and the last
    observed,       \* what a concurrent reader last saw of record and metadata
    find,           \* the FindPeersWithSubnet call: arguments, position, result
    peers,          \* len(s.pubsub.ListPeers(topic))
    ctxDone,        \* whether the caller's context is cancelled or expired
    dials,          \* the dial goroutines in flight (the WaitGroup counter)
    subnetsLock,    \* s.subnetsLock: the lock stored under each key, 0 for none
    subnetsLockLock,\* s.subnetsLockLock: the caller holding it, 0 when free
    lockers,        \* the callers of subnetLocker
    lockLog,        \* the locks allocated so far, and what the calls returned
    assign,         \* a node id, the epochs asked for and the assignments computed
    persist,        \* the clock, cache.SubnetIDs' persistent subnets, the call in progress
    hasPeer         \* the MinimumPeersPerSubnet flag, the topic's peers, the last answer

gpaVars == <<gpa>>
recVars == <<localNode, metaData, updaters, updates, observed>>
findVars == <<find, peers, ctxDone, dials>>
lockVars == <<subnetsLock, subnetsLockLock, lockers, lockLog>>
others == <<gpaVars, recVars, findVars, lockVars, assign, persist, hasPeer>>
(* what the actions of one component leave unchanged *)
allButGpa == <<vars, recVars, findVars, lockVars, assign, persist, hasPeer>>
allButRecord == <<vars, gpaVars, findVars, lockVars, assign, persist, hasPeer>>
allButFind == <<vars, gpaVars, recVars, lockVars, assign, persist, hasPeer>>
allButLocker == <<vars, gpaVars, recVars, findVars, assign, persist, hasPeer>>

GpaIdle == gpa = [phase |-> "idle"]

(* the record and the metadata of a node that has set no subnet yet, with  *)
(* no update under way                                                     *)
Updaters == {1, 2}
UpdaterIdle == [pc |-> "idle", bitVAtt |-> 0, bitVSync |-> 0, seq |-> 0]
RecordInit ==
    /\ localNode = [attnets |-> 0, syncnets |-> 0]
    /\ metaData = [version |-> "V0", seq |-> 0, attnets |-> 0, syncnets |-> 0]
    /\ updaters = [p \in Updaters |-> UpdaterIdle]
    /\ updates = [n |-> 0, version |-> "V0", bitVAtt |-> 0, bitVSync |-> 0]
    /\ observed = [taken |-> FALSE, localNode |-> localNode, metaData |-> metaData]

FindIdle ==
    find = [pc |-> "idle"] /\ peers = 0 /\ ctxDone = FALSE /\ dials = 0

(* the locker of a new Service: an empty map, the outer mutex free *)
MaxKey == 1
LockerKeys == 0..MaxKey
Lockers == {1, 2}
LockerInit ==
    /\ subnetsLock = [k \in LockerKeys |-> 0]
    /\ subnetsLockLock = 0
    /\ lockers = [p \in Lockers |-> [pc |-> "idle", i |-> 0, l |-> 0, ok |-> FALSE]]
    /\ lockLog = [allocated |-> 0, returned |-> <<>>]

(* no assignment asked for *)
SubnetsIdle == assign = [nodeID |-> 0, epochs |-> <<>>, calls |-> <<>>]

(* an empty cache at time 0, initializePersistentSubnets not called *)
PersistOf(id) ==
    [id |-> id, now |-> 0, ok |-> FALSE, subs |-> <<>>, expTime |-> 0,
     last |-> [op |-> "none"]]
PersistInit == persist = PersistOf(0)

(* hasPeerWithSubnet not called *)
HasPeerIdle ==
    hasPeer = [minimumPeersPerSubnet |-> 0, listPeers |-> 0, topic |-> "",
               ret |-> [called |-> FALSE, listed |-> 0, has |-> FALSE]]

OthersIdle ==
    GpaIdle /\ RecordInit /\ FindIdle /\ LockerInit /\ SubnetsIdle /\ PersistInit /\ HasPeerIdle

(* ------------------------------ records ------------------------------- *)
NoRet ==
    [op |-> "none", line |-> 0, headRoot |-> 0, headBlock |-> "nil",
     attributes |-> "nil", status |-> "none", payloadID |-> NilPid,
     lastValidHash |-> <<>>, invalidRoots |-> <<>>,
     newHead |-> 0, subPid |-> NilPid, subErr |-> NoErr, done |-> <<>>,
     slot |-> 0,
     preStateVersion |-> "Phase0", depth |-> 0,
     pid |-> NilPid, valid |-> FALSE, err |-> NoErr]

NoArgs == [root |-> 0, parentRoot |-> 0, engineLVH |-> <<>>, lastValidHash |-> <<>>]

NewFrame(headRoot, headBlock, attributes, fc) ==
    [headRoot |-> headRoot, headBlock |-> headBlock, attributes |-> attributes,
     pc |-> "start", status |-> "none", payloadID |-> NilPid,
     engineLVH |-> <<>>, lastValidHash |-> <<>>, invalidRoots |-> <<>>,
     newHead |-> 0, subPid |-> NilPid, subErr |-> NoErr, done |-> <<>>,
     fcAtEntry |-> fc]

Top == stack[Len(stack)]
InCall == stack # <<>>
AtPc(pc) == InCall /\ Top.pc = pc

ZeroMetrics ==
    [forkchoiceUpdatedValid |-> 0, forkchoiceUpdatedInvalid |-> 0,
     forkchoiceUpdatedOptimistic |-> 0, newPayloadValid |-> 0,
     newPayloadInvalid |-> 0, newPayloadOptimistic |-> 0]

EecInit ==
    /\ stack = <<>>
    /\ fcNodes = Roots
    /\ fcValid = {1}
    /\ beaconDB = Roots
    /\ stateCaches = Roots
    /\ blobStorage = Roots \ {1}
    /\ payloadIDCache = {}
    /\ canonicalHead = MaxRoots
    /\ currentSlot = 0
    /\ metrics = ZeroMetrics
    /\ ret = NoRet
    /\ setInvalidArgs = NoArgs
    /\ ncalls = 0

Init == EecInit /\ OthersIdle

(* ------------------------- external collaborators --------------------- *)
(* PayloadIDCache.Set: the entry of (slot, root) is replaced *)
CacheSet(cache, slot, root, pid) ==
    {e \in cache : ~(e[1] = slot /\ e[2] = root)} \cup {<<slot, root, pid>>}
CacheHas(cache, slot, root) == \E e \in cache : e[1] = slot /\ e[2] = root
CacheGet(cache, slot, root) ==
    (CHOOSE e \in cache : e[1] = slot /\ e[2] = root)[3]

(* ascending sequence of a set of roots *)
RECURSIVE SetToSeq(_)
SetToSeq(S) ==
    IF S = {} THEN <<>>
    ELSE LET m == CHOOSE x \in S : \A y \in S : x <= y
         IN <<m>> \o SetToSeq(S \ {m})
SeqToSet(q) == {q[i] : i \in 1..Len(q)}

(* ForkChoiceStore.SetOptimisticToInvalid: the roots it invalidates, the   *)
(* given root first, then its descendants still in fork-choice             *)
InvalidatedRoots(fc, root) ==
    <<root>> \o SetToSeq({d \in fc : d # root /\ IsDescendant(d, root)})

(* ForkChoiceStore.Head: a leaf of what fork-choice still holds *)
HeadCandidates(fc) ==
    {r \in fc : ~\E c \in fc : c # r /\ ParentRoot(c) = r}

(* ---------------------- removeInvalidBlockAndState -------------------- *)
(* The loop over blkRoots.  failAt is the index of the root at which a     *)
(* store operation fails (0: none does), failKind which one: "state" is    *)
(* DeleteStateFromCaches, "block" is BeaconDB.DeleteBlock.  A failure of   *)
(* blobStorage.Remove is only logged.  st is [db, caches, blobs, err].     *)
RECURSIVE RemoveLoop(_, _, _, _, _)
RemoveLoop(blkRoots, i, failAt, failKind, st) ==
    IF i > Len(blkRoots) THEN st
    ELSE IF i = failAt /\ failKind = "state" THEN [st EXCEPT !.err = TRUE]
    ELSE LET st1 == [st EXCEPT !.caches = @ \ {blkRoots[i]}]
         IN IF i = failAt /\ failKind = "block" THEN [st1 EXCEPT !.err = TRUE]
            ELSE RemoveLoop(blkRoots, i + 1, failAt, failKind,
                            [st1 EXCEPT !.db = @ \ {blkRoots[i]},
                                        !.blobs = @ \ {blkRoots[i]}])

removeInvalidBlockAndState(blkRoots, failAt, failKind) ==
    RemoveLoop(blkRoots, 1, failAt, failKind,
               [db |-> beaconDB, caches |-> stateCaches,
                blobs |-> blobStorage, err |-> FALSE])

(* --------------------- notifyForkchoiceUpdate ------------------------- *)
(* the answers ExecutionEngineCaller.ForkchoiceUpdated can give: VALID or  *)
(* SYNCING/ACCEPTED with or without a payload id, INVALID with or without  *)
(* a last valid hash, or any other error                                   *)
FcuAnswer(s, p, h) == [status |-> s, payloadID |-> p, lastValidHash |-> h]
FcuAnswers ==
    {FcuAnswer(s, p, <<>>) :
        s \in {"VALID", "SYNCING"}, p \in {NilPid} \cup PayloadIDs}
    \cup {FcuAnswer("INVALID", NilPid, h) : h \in EngineLVHs}
    \cup {FcuAnswer("ERROR", NilPid, <<>>)}

(* return of the innermost call: ret records the call and what it returns; *)
(* a caller waiting in the recursive call resumes behind it                *)
ReturnFrom(f, line, pid, err) ==
    /\ ret' = [NoRet EXCEPT
                 !.op = "notifyForkchoiceUpdate", !.line = line,
                 !.headRoot = f.headRoot, !.headBlock = f.headBlock,
                 !.attributes = f.attributes, !.status = f.status,
                 !.payloadID = f.payloadID,
                 !.lastValidHash = f.lastValidHash,
                 !.invalidRoots = f.invalidRoots, !.newHead = f.newHead,
                 !.subPid = f.subPid, !.subErr = f.subErr, !.done = f.done,
                 !.slot = currentSlot, !.depth = Len(stack),
                 !.pid = pid, !.err = err]
    /\ stack' = IF Len(stack) = 1 THEN <<>>
                ELSE [SubSeq(stack, 1, Len(stack) - 1)
                        EXCEPT ![Len(stack) - 1].pc = "afterRecurse"]
Return(line, pid, err) == ReturnFrom(Top, line, pid, err)

SetTop(f) == stack' = [stack EXCEPT ![Len(stack)] = f]

(* the head blocks a caller may hand in for a root *)
HeadBlocks(r) == {"nil", "nilBody", "execCheckErr", "payloadErr", BlockOf(r)}
Attributes == {"nil", "empty", "attr"}

(* a caller invokes notifyForkchoiceUpdate on a root of fork-choice *)
NotifyForkchoiceUpdate ==
    /\ ~InCall
    /\ ncalls < MaxCalls
    /\ \E r \in fcNodes, a \in Attributes :
          \E b \in HeadBlocks(r) : stack' = <<NewFrame(r, b, a, fcNodes)>>
    /\ ncalls' = ncalls + 1
    /\ ret' = NoRet
    /\ setInvalidArgs' = NoArgs
    /\ UNCHANGED <<fcNodes, fcValid, stores, payloadIDCache, canonicalHead,
                   currentSlot, metrics>>
    /\ UNCHANGED others

(* lines 39-72: the guards on the head block, then the engine call *)
NfuEngine ==
    /\ AtPc("start")
    /\ UNCHANGED <<fcNodes, fcValid, stores, payloadIDCache, canonicalHead,
                   currentSlot, metrics, setInvalidArgs, ncalls>>
    /\ CASE Top.headBlock = "nil" -> Return(41, NilPid, NoErr)
         [] Top.headBlock = "nilBody" -> Return(46, NilPid, NoErr)
         [] Top.headBlock = "execCheckErr" -> Return(52, NilPid, NoErr)
         [] Top.headBlock = "preMerge" -> Return(55, NilPid, NoErr)
         [] Top.headBlock = "payloadErr" -> Return(60, NilPid, NoErr)
         [] OTHER ->
              /\ \E ans \in FcuAnswers :
                    SetTop([Top EXCEPT
                        !.attributes = IF @ = "nil" THEN "empty" ELSE @,
                        !.status = ans.status,
                        !.payloadID = ans.payloadID,
                        !.engineLVH = ans.lastValidHash,
                        !.lastValidHash = ans.lastValidHash,
                        !.pc = "switch"])
              /\ UNCHANGED ret
    /\ UNCHANGED others

(* lines 75-82: ErrAcceptedSyncingPayloadStatus *)
(* faulty variant: the engine's payload id is dropped *)
OptimisticResult_NilPid(payloadID) == [pid |-> NilPid, err |-> NoErr]
OptimisticResult(payloadID) == [pid |-> payloadID, err |-> NoErr]
NfuOptimistic ==
    /\ AtPc("switch") /\ Top.status = "SYNCING"
    /\ metrics' = [metrics EXCEPT !.forkchoiceUpdatedOptimistic = @ + 1]
    /\ Return(82, OptimisticResult(Top.payloadID).pid,
              OptimisticResult(Top.payloadID).err)
    /\ UNCHANGED <<fcNodes, fcValid, stores, payloadIDCache, canonicalHead,
                   currentSlot, setInvalidArgs, ncalls>>
    /\ UNCHANGED others

(* lines 139-141: any other engine error is logged and swallowed *)
(* faulty variant: the error is handed to the caller *)
NfuUndefined_Surfaced ==
    /\ AtPc("switch") /\ Top.status = "ERROR"
    /\ Return(141, NilPid, BareErr("ErrUndefinedExecutionEngineError"))
    /\ UNCHANGED <<fcNodes, fcValid, stores, payloadIDCache, canonicalHead,
                   currentSlot, metrics, setInvalidArgs, ncalls>>
    /\ UNCHANGED others
NfuUndefined ==
    /\ AtPc("switch") /\ Top.status = "ERROR"
    /\ Return(141, NilPid, NoErr)
    /\ UNCHANGED <<fcNodes, fcValid, stores, payloadIDCache, canonicalHead,
                   currentSlot, metrics, setInvalidArgs, ncalls>>
    /\ UNCHANGED others

(* lines 144-167: nil error, the VALID answer *)
(* faulty variant: the cache is keyed by the current slot *)
NextSlot_CurrentSlot(slot) == slot
NextSlot(slot) == slot + 1
HasAttr(attributes) == attributes = "attr"
(* faulty variant: the cache is keyed by the root the outermost call was   *)
(* given                                                                   *)
NfuValid_SubmittedRoot ==
    /\ AtPc("switch") /\ Top.status = "VALID"
    /\ metrics' = [metrics EXCEPT !.forkchoiceUpdatedValid = @ + 1]
    /\ \E setValidOk \in {ok \in BOOLEAN : ok => Top.headRoot \in fcNodes} :
          IF ~setValidOk
          THEN /\ Return(147, NilPid, NoErr)
               /\ UNCHANGED <<fcValid, payloadIDCache>>
          ELSE /\ fcValid' = fcValid \cup {Top.headRoot}
               /\ payloadIDCache' =
                    IF HasAttr(Top.attributes) /\ Top.payloadID # NilPid
                    THEN CacheSet(payloadIDCache, NextSlot(currentSlot),
                                  stack[1].headRoot, Top.payloadID)
                    ELSE payloadIDCache
               /\ Return(167, Top.payloadID, NoErr)
    /\ UNCHANGED <<fcNodes, stores, canonicalHead, currentSlot, setInvalidArgs,
                   ncalls>>
    /\ UNCHANGED others
NfuValid ==
    /\ AtPc("switch") /\ Top.status = "VALID"
    /\ metrics' = [metrics EXCEPT !.forkchoiceUpdatedValid = @ + 1]
    /\ \E setValidOk \in {ok \in BOOLEAN : ok => Top.headRoot \in fcNodes} :
          IF ~setValidOk
          THEN /\ Return(147, NilPid, NoErr)
               /\ UNCHANGED <<fcValid, payloadIDCache>>
          ELSE /\ fcValid' = fcValid \cup {Top.headRoot}
               /\ payloadIDCache' =
                    IF HasAttr(Top.attributes) /\ Top.payloadID # NilPid
                    THEN CacheSet(payloadIDCache, NextSlot(currentSlot),
                                  Top.headRoot, Top.payloadID)
                    ELSE payloadIDCache
               /\ Return(167, Top.payloadID, NoErr)
    /\ UNCHANGED <<fcNodes, stores, canonicalHead, currentSlot, setInvalidArgs,
                   ncalls>>
    /\ UNCHANGED others

(* lines 83-138: ErrInvalidPayloadStatus, the invalid-head recovery.  Its  *)
(* steps in statement order; NextStep gives the step after a given one.    *)
(* faulty variant: saveHead runs before the recursive call *)
RecoverySteps_SaveHeadFirst ==
    <<"prune", "head", "load", "saveHead", "recurse", "return">>
RecoverySteps == <<"prune", "head", "load", "recurse", "saveHead", "return">>
NextStep(pc) ==
    RecoverySteps[(CHOOSE i \in 1..Len(RecoverySteps) : RecoverySteps[i] = pc) + 1]

(* lines 84-88: count the answer, default an empty last-valid hash *)
(* faulty variant: an empty last-valid hash is passed on as it is *)
NormalizeLVH_KeepEmpty(lastValidHash) == lastValidHash
NormalizeLVH(lastValidHash) ==
    IF Len(lastValidHash) = 0 THEN defaultLatestValidHash ELSE lastValidHash
NfuInvalid ==
    /\ AtPc("switch") /\ Top.status = "INVALID"
    /\ metrics' = [metrics EXCEPT !.forkchoiceUpdatedInvalid = @ + 1]
    /\ SetTop([Top EXCEPT !.lastValidHash = NormalizeLVH(@),
                          !.pc = RecoverySteps[1]])
    /\ UNCHANGED <<fcNodes, fcValid, stores, payloadIDCache, canonicalHead,
                   currentSlot, ret, setInvalidArgs, ncalls>>
    /\ UNCHANGED others

(* lines 89-97: SetOptimisticToInvalid, then removeInvalidBlockAndState *)
NfuPrune ==
    /\ AtPc("prune")
    /\ \E setInvalidOk \in {ok \in BOOLEAN : ok => Top.headRoot \in fcNodes} :
          IF ~setInvalidOk
          THEN /\ Return(92, NilPid, NoErr)
               /\ UNCHANGED <<fcNodes, fcValid, stores, setInvalidArgs>>
          ELSE LET invalidRoots == InvalidatedRoots(fcNodes, Top.headRoot)
                   f == [Top EXCEPT !.engineLVH = <<>>,
                                    !.lastValidHash = <<>>,
                                    !.invalidRoots = invalidRoots]
               IN /\ setInvalidArgs' =
                       [root |-> Top.headRoot,
                        parentRoot |-> ParentRoot(Top.headRoot),
                        engineLVH |-> Top.engineLVH,
                        lastValidHash |-> ToBytes32(Top.lastValidHash)]
                  /\ fcNodes' = fcNodes \ SeqToSet(invalidRoots)
                  /\ fcValid' = fcValid \ SeqToSet(invalidRoots)
                  /\ \E failAt \in 0..Len(invalidRoots),
                        failKind \in {"state", "block"} :
                        LET st == removeInvalidBlockAndState(
                                      invalidRoots, failAt, failKind)
                        IN /\ beaconDB' = st.db
                           /\ stateCaches' = st.caches
                           /\ blobStorage' = st.blobs
                           /\ IF st.err
                              THEN ReturnFrom(f, 96, NilPid, NoErr)
                              ELSE /\ SetTop([f EXCEPT
                                          !.done = Append(@, "prune"),
                                          !.pc = NextStep("prune")])
                                   /\ UNCHANGED ret
    /\ UNCHANGED <<payloadIDCache, canonicalHead, currentSlot, metrics, ncalls>>
    /\ UNCHANGED others

(* lines 99-107: the new head of fork-choice *)
NfuHead ==
    /\ AtPc("head")
    /\ \/ ReturnFrom([Top EXCEPT !.done = Append(@, "head")], 106, NilPid,
                     MkErr("invalidBlock", Top.headRoot, Top.invalidRoots,
                           ZeroHash, "ErrInvalidPayload"))
       \/ /\ \E r \in HeadCandidates(fcNodes) :
                SetTop([Top EXCEPT !.newHead = r,
                                   !.done = Append(@, "head"),
                                   !.pc = NextStep("head")])
          /\ UNCHANGED ret
    /\ UNCHANGED <<fcNodes, fcValid, stores, payloadIDCache, canonicalHead,
                   currentSlot, metrics, setInvalidArgs, ncalls>>
    /\ UNCHANGED others

(* lines 108-117: getBlock and StateByRoot of the new head; either may     *)
(* fail, and both need the block in the database                           *)
NfuLoad ==
    /\ AtPc("load")
    /\ \E getBlockOk \in {ok \in BOOLEAN : ok => Top.newHead \in beaconDB},
          stateOk \in {ok \in BOOLEAN : ok => Top.newHead \in beaconDB} :
          IF ~getBlockOk THEN Return(111, NilPid, NoErr)
          ELSE IF ~stateOk THEN Return(116, NilPid, NoErr)
          ELSE /\ SetTop([Top EXCEPT !.done = Append(@, "load"),
                                     !.pc = NextStep("load")])
               /\ UNCHANGED ret
    /\ UNCHANGED <<fcNodes, fcValid, stores, payloadIDCache, canonicalHead,
                   currentSlot, metrics, setInvalidArgs, ncalls>>
    /\ UNCHANGED others

(* lines 118-123: the recursive call on the new head, with the caller's    *)
(* attributes                                                              *)
(* faulty variant: the recursion is entered on the head just invalidated *)
RecursiveHead_SameHead(f) == f.headRoot
RecursiveHead(f) == f.newHead
NfuRecurse ==
    /\ AtPc("recurse")
    /\ stack' = Append([stack EXCEPT ![Len(stack)].pc = "inRecursion"],
                       NewFrame(RecursiveHead(Top), BlockOf(RecursiveHead(Top)),
                                Top.attributes, fcNodes))
    /\ UNCHANGED <<fcNodes, fcValid, stores, payloadIDCache, canonicalHead,
                   currentSlot, metrics, ret, setInvalidArgs, ncalls>>
    /\ UNCHANGED others

(* lines 124-126: an error of the recursive call is returned as it is *)
RecursionError(subPid, subErr) == [pid |-> NilPid, err |-> subErr]
NfuAfterRecurse ==
    /\ AtPc("afterRecurse")
    /\ LET f == [Top EXCEPT !.subPid = ret.pid, !.subErr = ret.err,
                            !.done = Append(@, "recurse")]
       IN IF ret.err # NoErr
          THEN ReturnFrom(f, 125, RecursionError(ret.pid, ret.err).pid,
                          RecursionError(ret.pid, ret.err).err)
          ELSE /\ SetTop([f EXCEPT !.pc = NextStep("recurse")])
               /\ UNCHANGED ret
    /\ UNCHANGED <<fcNodes, fcValid, stores, payloadIDCache, canonicalHead,
                   currentSlot, metrics, setInvalidArgs, ncalls>>
    /\ UNCHANGED others

(* lines 128-130: saveHead of the new head; its failure is only logged *)
NfuSaveHead ==
    /\ AtPc("saveHead")
    /\ \E saveOk \in BOOLEAN :
          canonicalHead' = IF saveOk THEN Top.newHead ELSE canonicalHead
    /\ SetTop([Top EXCEPT !.done = Append(@, "saveHead"),
                          !.pc = NextStep("saveHead")])
    /\ UNCHANGED <<fcNodes, fcValid, stores, payloadIDCache, currentSlot,
                   metrics, ret, setInvalidArgs, ncalls>>
    /\ UNCHANGED others

(* line 138: the payload id of the recursion and the invalidity record of  *)
(* the head this call was given                                            *)
(* faulty variant: the record names the new head *)
RecoveryResult_NewHeadRoot(f) ==
    [pid |-> f.subPid,
     err |-> MkErr("invalidBlock", f.newHead, f.invalidRoots, ZeroHash,
                   "ErrInvalidPayload")]
RecoveryResult(f) ==
    [pid |-> f.subPid,
     err |-> MkErr("invalidBlock", f.headRoot, f.invalidRoots, ZeroHash,
                   "ErrInvalidPayload")]
NfuReturnInvalid ==
    /\ AtPc("return")
    /\ Return(138, RecoveryResult(Top).pid, RecoveryResult(Top).err)
    /\ UNCHANGED <<fcNodes, fcValid, stores, payloadIDCache, canonicalHead,
                   currentSlot, metrics, setInvalidArgs, ncalls>>
    /\ UNCHANGED others

NfuStep ==
    \/ NfuEngine \/ NfuOptimistic \/ NfuUndefined \/ NfuValid \/ NfuInvalid
    \/ NfuPrune \/ NfuHead \/ NfuLoad \/ NfuRecurse \/ NfuAfterRecurse
    \/ NfuSaveHead \/ NfuReturnInvalid

(* the slot clock, observed between calls *)
Tick ==
    /\ ~InCall
    /\ currentSlot < MaxSlot
    /\ currentSlot' = currentSlot + 1
    /\ UNCHANGED <<stack, fcNodes, fcValid, stores, payloadIDCache,
                   canonicalHead, metrics, ret, setInvalidArgs, ncalls>>
    /\ UNCHANGED others

(* -------------------------- notifyNewPayload -------------------------- *)
(* The signed block handed in: a nil interface, a block whose inner block  *)
(* is nil, or a block with its version and the first of its accessors that *)
(* does not answer with a payload to send: "enabledErr" and "disabled" are *)
(* IsExecutionEnabledUsingHeader failing or answering false, "payloadErr", *)
(* "kzgErr" and "requestsErr" are Execution(), BlobKzgCommitments() and    *)
(* ExecutionRequests() failing, "none" is a block all of whose accessors   *)
(* succeed.                                                                *)
SignedBlock(kind, version, fault) ==
    [kind |-> kind, version |-> version, fault |-> fault]
BlockFaults ==
    {"none", "enabledErr", "disabled", "payloadErr", "kzgErr", "requestsErr"}
(* a block is of the version of its pre-state or, at a fork boundary, of   *)
(* the next one                                                            *)
SignedBlocks(preStateVersion) ==
    {SignedBlock(k, preStateVersion, "none") : k \in {"nil", "nilInner"}}
    \cup {SignedBlock("block", Versions[v], f) :
            v \in {i \in 1..Len(Versions) :
                      i - VersionIndex(preStateVersion) \in {0, 1}},
            f \in BlockFaults}

(* the answers ExecutionEngineCaller.NewPayload can give: a status, or any *)
(* other error, named by its message                                      *)
EngineErrors == {"timeout", "connection refused"}
NewPayloadAnswers ==
    {[status |-> s, lastValidHash |-> <<>>] :
        s \in {"VALID", "SYNCING"} \cup EngineErrors}
    \cup {[status |-> "INVALID", lastValidHash |-> h] : h \in EngineLVHs}

(* faulty variant: Altair pre-states are sent to the engine *)
IsPreBellatrix_Altair(preStateVersion) == VersionLess(preStateVersion, "Altair")
(* line 199 *)
IsPreBellatrix(preStateVersion) == VersionLess(preStateVersion, "Bellatrix")

(* faulty variant: an optimistic answer counts as valid *)
NewPayloadResult_OptimisticValid(status, lastValidHash) ==
    CASE status \in {"VALID", "SYNCING"} -> [valid |-> TRUE, err |-> NoErr]
      [] status = "INVALID" ->
           [valid |-> FALSE,
            err |-> MkErr("invalidBlock", 0, <<>>, ToBytes32(lastValidHash),
                          "ErrInvalidPayload")]
      [] OTHER ->
           [valid |-> FALSE,
            err |-> MkErr("ErrUndefinedExecutionEngineError", 0, <<>>, <<>>,
                          status)]
(* lines 238-257: the result for each answer of the engine *)
NewPayloadResult(status, lastValidHash) ==
    CASE status = "VALID" -> [valid |-> TRUE, err |-> NoErr]
      [] status = "SYNCING" -> [valid |-> FALSE, err |-> NoErr]
      [] status = "INVALID" ->
           [valid |-> FALSE,
            err |-> MkErr("invalidBlock", 0, <<>>, ToBytes32(lastValidHash),
                          "ErrInvalidPayload")]
      [] OTHER ->
           [valid |-> FALSE,
            err |-> MkErr("ErrUndefinedExecutionEngineError", 0, <<>>, <<>>,
                          status)]

(* lines 238-257: the counter each answer increments *)
(* faulty variant: an INVALID answer is counted here as well *)
NewPayloadMetrics_CountInvalid(m, status) ==
    CASE status = "VALID" -> [m EXCEPT !.newPayloadValid = @ + 1]
      [] status = "SYNCING" -> [m EXCEPT !.newPayloadOptimistic = @ + 1]
      [] status = "INVALID" -> [m EXCEPT !.newPayloadInvalid = @ + 1]
      [] OTHER -> m
NewPayloadMetrics(m, status) ==
    CASE status = "VALID" -> [m EXCEPT !.newPayloadValid = @ + 1]
      [] status = "SYNCING" -> [m EXCEPT !.newPayloadOptimistic = @ + 1]
      [] OTHER -> m

(* lines 196-236: the line at which the call returns before the engine is  *)
(* asked, 0 when the engine is asked                                       *)
NewPayloadEarlyReturn(preStateVersion, blk) ==
    CASE blk.kind = "nil" -> 197
      [] IsPreBellatrix(preStateVersion) -> 200
      [] blk.kind = "nilInner" -> 203
      [] blk.fault = "enabledErr" -> 208
      [] blk.fault = "disabled" -> 211
      [] blk.fault = "payloadErr" -> 215
      [] ~VersionLess(blk.version, "Deneb") /\ blk.fault = "kzgErr" -> 225
      [] ~VersionLess(blk.version, "Electra") /\ blk.fault = "requestsErr" -> 233
      [] OTHER -> 0

NewPayloadEarlyResult(line) ==
    CASE line = 197 -> [valid |-> FALSE, err |-> BareErr("nilBlock")]
      [] line = 200 -> [valid |-> TRUE, err |-> NoErr]
      [] line = 203 -> [valid |-> FALSE, err |-> BareErr("nilBlock")]
      [] line = 208 ->
           [valid |-> FALSE,
            err |-> MkErr("invalidBlock", 0, <<>>, ZeroHash, "execution enabled")]
      [] line = 211 -> [valid |-> TRUE, err |-> NoErr]
      [] line = 215 ->
           [valid |-> FALSE,
            err |-> MkErr("invalidBlock", 0, <<>>, ZeroHash, "execution payload")]
      [] line = 225 ->
           [valid |-> FALSE,
            err |-> MkErr("invalidBlock", 0, <<>>, ZeroHash, "kzg commitments")]
      [] OTHER -> [valid |-> FALSE, err |-> BareErr("executionRequests")]

NotifyNewPayload ==
    /\ ~InCall
    /\ ncalls < MaxCalls
    /\ ncalls' = ncalls + 1
    /\ \E v \in 1..Len(Versions) : \E blk \in SignedBlocks(Versions[v]) :
          LET preStateVersion == Versions[v]
              early == NewPayloadEarlyReturn(preStateVersion, blk)
              call == [NoRet EXCEPT !.op = "notifyNewPayload",
                                    !.preStateVersion = preStateVersion,
                                    !.headBlock = blk.kind]
          IN IF early # 0
             THEN /\ ret' = [call EXCEPT
                               !.line = early,
                               !.valid = NewPayloadEarlyResult(early).valid,
                               !.err = NewPayloadEarlyResult(early).err]
                  /\ UNCHANGED metrics
             ELSE \E ans \in NewPayloadAnswers :
                     LET res == NewPayloadResult(ans.status, ans.lastValidHash)
                     IN /\ ret' = [call EXCEPT
                                     !.line = 236,
                                     !.status = ans.status,
                                     !.lastValidHash = ans.lastValidHash,
                                     !.valid = res.valid, !.err = res.err]
                        /\ metrics' = NewPayloadMetrics(metrics, ans.status)
    /\ setInvalidArgs' = NoArgs
    /\ UNCHANGED <<stack, fcNodes, fcValid, stores, payloadIDCache,
                   canonicalHead, currentSlot>>
    /\ UNCHANGED others

(* -------------------------- pruneInvalidBlock ------------------------- *)
(* lines 261-279 *)
(* faulty variant: a store failure is swallowed *)
PruneResult_SwallowStoreError(setInvalidOk, removeErr, invalidRoots, lvh) ==
    IF ~setInvalidOk THEN [line |-> 265, err |-> BareErr("forkchoice")]
    ELSE IF removeErr THEN [line |-> 268, err |-> NoErr]
    ELSE [line |-> 274,
          err |-> MkErr("invalidBlock", 0, invalidRoots, lvh,
                        "ErrInvalidPayload")]
PruneResult(setInvalidOk, removeErr, invalidRoots, lvh) ==
    IF ~setInvalidOk THEN [line |-> 265, err |-> BareErr("forkchoice")]
    ELSE IF removeErr THEN [line |-> 268, err |-> BareErr("store")]
    ELSE [line |-> 274,
          err |-> MkErr("invalidBlock", 0, invalidRoots, lvh,
                        "ErrInvalidPayload")]

PruneInvalidBlock ==
    /\ ~InCall
    /\ ncalls < MaxCalls
    /\ ncalls' = ncalls + 1
    /\ metrics' = [metrics EXCEPT !.newPayloadInvalid = @ + 1]
    /\ \E root \in Roots, lvh \in {ZeroHash, Hash(204)} :
       \E setInvalidOk \in {ok \in BOOLEAN : ok => root \in fcNodes} :
          LET call == [NoRet EXCEPT !.op = "pruneInvalidBlock",
                                    !.headRoot = root,
                                    !.lastValidHash = lvh]
          IN IF ~setInvalidOk
             THEN /\ ret' = [call EXCEPT
                       !.line = PruneResult(FALSE, FALSE, <<>>, lvh).line,
                       !.err = PruneResult(FALSE, FALSE, <<>>, lvh).err]
                  /\ UNCHANGED <<fcNodes, fcValid, stores, setInvalidArgs>>
             ELSE LET invalidRoots == InvalidatedRoots(fcNodes, root)
                  IN /\ setInvalidArgs' =
                          [root |-> root, parentRoot |-> ParentRoot(root),
                           engineLVH |-> lvh, lastValidHash |-> lvh]
                     /\ fcNodes' = fcNodes \ SeqToSet(invalidRoots)
                     /\ fcValid' = fcValid \ SeqToSet(invalidRoots)
                     /\ \E failAt \in 0..Len(invalidRoots),
                           failKind \in {"state", "block"} :
                           LET st == removeInvalidBlockAndState(
                                         invalidRoots, failAt, failKind)
                               res == PruneResult(TRUE, st.err, invalidRoots, lvh)
                           IN /\ beaconDB' = st.db
                              /\ stateCaches' = st.caches
                              /\ blobStorage' = st.blobs
                              /\ ret' = [call EXCEPT
                                           !.invalidRoots = invalidRoots,
                                           !.line = res.line,
                                           !.err = res.err]
    /\ UNCHANGED <<stack, payloadIDCache, canonicalHead, currentSlot>>
    /\ UNCHANGED others

Next ==
    \/ NotifyForkchoiceUpdate
    \/ NfuEngine \/ NfuOptimistic \/ NfuUndefined \/ NfuValid \/ NfuInvalid
    \/ NfuPrune \/ NfuHead \/ NfuLoad \/ NfuRecurse \/ NfuAfterRecurse
    \/ NfuSaveHead \/ NfuReturnInvalid
    \/ NotifyNewPayload
    \/ PruneInvalidBlock
    \/ Tick

Spec == Init /\ [][Next]_vars

(* ====================================================================== *)
(*                         getPayloadAttribute                            *)
(* ====================================================================== *)
(* slots.ToEpoch over the configured number of slots of an epoch *)
SlotsPerEpoch == 4
MaxEpoch == 1
Slots == 0..((MaxEpoch + 1) * SlotsPerEpoch - 1)
ToEpoch(slot) == slot \div SlotsPerEpoch

(* The validators a state's shuffling may name as the proposer of a slot,  *)
(* and the fee recipient the tracked-validators cache holds for each; the  *)
(* zero value of a TrackedValidator has the zero fee recipient.            *)
Validators == {1, 2}
FeeRecipientOf(v) == 160 + v
ZeroFeeRecipient == 0

(* A beacon state, as far as the attribute depends on it: its slot, its    *)
(* version and the proposer its shuffling gives for the requested slot.    *)
(* err marks the failed result of ProcessSlotsUsingNextSlotCache.          *)
BeaconState(slot, version, proposer) ==
    [err |-> FALSE, slot |-> slot, version |-> version, proposer |-> proposer]
ProcessSlotsError ==
    [err |-> TRUE, slot |-> 0, version |-> "Phase0", proposer |-> 0]
(* the states ProcessSlotsUsingNextSlotCache may answer: at the requested  *)
(* slot, of the same version or upgraded to the next, with the proposer of *)
(* the new shuffling                                                       *)
AdvancedStates(st, slot) ==
    {BeaconState(slot, Versions[v], p) :
        v \in {i \in 1..Len(Versions) : i - VersionIndex(st.version) \in {0, 1}},
        p \in Validators}

(* Service.trackedProposer: the proposer of the slot by the given state,   *)
(* looked up in the tracked-validators cache                               *)
NoLookup == [feeRecipient |-> ZeroFeeRecipient, ok |-> FALSE]
trackedProposer(st, slot, tracked) ==
    IF st.proposer \in tracked
    THEN [feeRecipient |-> FeeRecipientOf(st.proposer), ok |-> TRUE]
    ELSE NoLookup

(* payloadattribute.EmptyWithVersion and payloadattribute.New *)
EmptyWithVersion(version) ==
    [empty |-> TRUE, version |-> version, suggestedFeeRecipient |-> ZeroFeeRecipient,
     withdrawals |-> FALSE, parentBeaconBlockRoot |-> FALSE]
NewAttribute(version, feeRecipient, withdrawals, parentRoot) ==
    [empty |-> FALSE, version |-> version, suggestedFeeRecipient |-> feeRecipient,
     withdrawals |-> withdrawals, parentBeaconBlockRoot |-> parentRoot]

(* the helper that fails in a call, if one does *)
HelperFailures == {"none", "randao", "time", "withdrawals", "new"}

(* the result of a call: the attribute, the line that returns it and the   *)
(* states the tracked-proposer registry was consulted against, in order    *)
AttributeResult(attr, line, lookups) ==
    [attr |-> attr, line |-> line, lookups |-> lookups]

(* lines 308-310: the state of the lookup at an epoch boundary is the      *)
(* state after ProcessSlots                                                *)
(* faulty variant: the lookup is made against the state before the advance *)
BoundaryLookupState_PreAdvance(st, advanced) == st
BoundaryLookupState(st, advanced) == advanced

(* lines 329-379: the attribute of the state's version *)
VersionedAttribute(st, val, fail, emptyAttri, lookups) ==
    CASE st.version \in {"Deneb", "Electra"} ->
           IF fail = "withdrawals" THEN AttributeResult(emptyAttri, 335, lookups)
           ELSE IF fail = "new" THEN AttributeResult(emptyAttri, 346, lookups)
           ELSE AttributeResult(
                    NewAttribute("Deneb", val.feeRecipient, TRUE, TRUE), 379, lookups)
      [] st.version = "Capella" ->
           IF fail = "withdrawals" THEN AttributeResult(emptyAttri, 352, lookups)
           ELSE IF fail = "new" THEN AttributeResult(emptyAttri, 362, lookups)
           ELSE AttributeResult(
                    NewAttribute("Capella", val.feeRecipient, TRUE, FALSE), 379, lookups)
      [] st.version = "Bellatrix" ->
           IF fail = "new" THEN AttributeResult(emptyAttri, 372, lookups)
           ELSE AttributeResult(
                    NewAttribute("Bellatrix", val.feeRecipient, FALSE, FALSE), 379, lookups)
      [] OTHER -> AttributeResult(emptyAttri, 376, lookups)

(* lines 282-380.  advanced is what ProcessSlotsUsingNextSlotCache answers *)
(* when it is called, fail the helper that fails.                          *)
getPayloadAttribute(st, slot, tracked, advanced, fail) ==
    LET emptyAttri == EmptyWithVersion(st.version)
        e == ToEpoch(slot)
        stateEpoch == ToEpoch(st.slot)
        first == IF e = stateEpoch THEN trackedProposer(st, slot, tracked)
                 ELSE NoLookup
        lookups1 == IF e = stateEpoch THEN <<st>> ELSE <<>>
    IN IF e = stateEpoch /\ ~first.ok
       THEN AttributeResult(emptyAttri, 296, lookups1)
       ELSE IF slot > st.slot /\ advanced.err
       THEN AttributeResult(emptyAttri, 305, lookups1)
       ELSE LET st2 == IF slot > st.slot THEN advanced ELSE st
                at == BoundaryLookupState(st, st2)
                val == IF e > stateEpoch THEN trackedProposer(at, slot, tracked)
                       ELSE first
                lookups2 == IF e > stateEpoch THEN Append(lookups1, at)
                            ELSE lookups1
            IN IF e > stateEpoch /\ ~val.ok
               THEN AttributeResult(EmptyWithVersion(st2.version), 312, lookups2)
               ELSE IF fail = "randao"
               THEN AttributeResult(emptyAttri, 319, lookups2)
               ELSE IF fail = "time"
               THEN AttributeResult(emptyAttri, 326, lookups2)
               ELSE VersionedAttribute(st2, val, fail, emptyAttri, lookups2)

(* a call: a state, a slot and the tracked validators of this node *)
GpaStart ==
    \E s \in Slots, v \in 1..Len(Versions), p \in Validators, slot \in Slots,
       tracked \in {{}, {1}} :
        gpa = [phase |-> "called", st |-> BeaconState(s, Versions[v], p),
               slot |-> slot, tracked |-> tracked]

GetPayloadAttribute ==
    /\ gpa.phase = "called"
    /\ \E advanced \in AdvancedStates(gpa.st, gpa.slot) \cup {ProcessSlotsError},
          fail \in HelperFailures :
          gpa' = [phase |-> "returned", st |-> gpa.st, slot |-> gpa.slot,
                  tracked |-> gpa.tracked, advanced |-> advanced,
                  res |-> getPayloadAttribute(gpa.st, gpa.slot, gpa.tracked,
                                              advanced, fail)]
    /\ UNCHANGED allButGpa

InitAttribute == EecInit /\ GpaStart /\ RecordInit /\ FindIdle /\ LockerInit /\ SubnetsIdle
    /\ PersistInit /\ HasPeerIdle
NextAttribute == GetPayloadAttribute
SpecAttribute == InitAttribute /\ [][NextAttribute]_<<vars, others>>

(* ====================================================================== *)
(*              updateSubnetRecordWithMetadata and ...V2                  *)
(* ====================================================================== *)
(* Each caller runs the statements of its update one at a time, and the    *)
(* updates take no lock: the steps of two callers, and the reads of an     *)
(* observer of the record and the metadata, may fall between them.         *)
MaxUpdates == 2
Bitfields == {1, 2}

(* lines 170 and 183: a caller enters an update with the bitfields to set; *)
(* in V1 there is no sync bitfield                                         *)
UpdateCall(p) ==
    /\ updaters[p].pc = "idle"
    /\ updates.n + Cardinality({q \in Updaters : updaters[q].pc # "idle"})
          < MaxUpdates
    /\ \E version \in {"V0", "V1"}, att \in Bitfields, sync \in Bitfields :
          /\ version = "V0" => sync = 1
          /\ updaters' = [updaters EXCEPT ![p] =
                 [pc |-> version \o ":setAtt", bitVAtt |-> att,
                  bitVSync |-> IF version = "V0" THEN 0 ELSE sync, seq |-> 0]]
    /\ UNCHANGED <<localNode, metaData, updates, observed>>
    /\ UNCHANGED allButRecord

(* lines 172 and 186: LocalNode().Set(entry) *)
SetAttEntry(p) ==
    /\ updaters[p].pc \in {"V0:setAtt", "V1:setAtt"}
    /\ localNode' = [localNode EXCEPT !.attnets = updaters[p].bitVAtt]
    /\ updaters' = [updaters EXCEPT ![p].pc =
           IF @ = "V0:setAtt" THEN "V0:readSeq" ELSE "V1:setSync"]
    /\ UNCHANGED <<metaData, updates, observed>>
    /\ UNCHANGED allButRecord

(* line 187: LocalNode().Set(subEntry) *)
SetSyncEntry(p) ==
    /\ updaters[p].pc = "V1:setSync"
    /\ localNode' = [localNode EXCEPT !.syncnets = updaters[p].bitVSync]
    /\ updaters' = [updaters EXCEPT ![p].pc = "V1:readSeq"]
    /\ UNCHANGED <<metaData, updates, observed>>
    /\ UNCHANGED allButRecord

(* lines 174 and 189: s.metaData.SequenceNumber() + 1 *)
ReadSeq(p) ==
    /\ updaters[p].pc \in {"V0:readSeq", "V1:readSeq"}
    /\ updaters' = [updaters EXCEPT
           ![p].seq = metaData.seq + 1,
           ![p].pc = IF @ = "V0:readSeq" THEN "V0:write" ELSE "V1:write"]
    /\ UNCHANGED <<localNode, metaData, updates, observed>>
    /\ UNCHANGED allButRecord

(* lines 173 and 188: s.metaData = the new metadata; the update is done *)
WriteMetaData(p) ==
    /\ updaters[p].pc \in {"V0:write", "V1:write"}
    /\ LET u == updaters[p]
           version == IF u.pc = "V0:write" THEN "V0" ELSE "V1"
       IN /\ metaData' = [version |-> version, seq |-> u.seq,
                          attnets |-> u.bitVAtt, syncnets |-> u.bitVSync]
          /\ updates' = [n |-> updates.n + 1, version |-> version,
                         bitVAtt |-> u.bitVAtt, bitVSync |-> u.bitVSync]
    /\ updaters' = [updaters EXCEPT ![p] = UpdaterIdle]
    /\ UNCHANGED <<localNode, observed>>
    /\ UNCHANGED allButRecord

(* a reader of the node record and of the metadata (a peer asking for      *)
(* both) takes what is there                                               *)
Observe ==
    /\ observed' = [taken |-> TRUE, localNode |-> localNode, metaData |-> metaData]
    /\ UNCHANGED <<localNode, metaData, updaters, updates>>
    /\ UNCHANGED allButRecord

InitRecord == EecInit /\ GpaIdle /\ RecordInit /\ FindIdle /\ LockerInit /\ SubnetsIdle
    /\ PersistInit /\ HasPeerIdle
NextRecord ==
    \/ \E p \in Updaters : UpdateCall(p)
    \/ \E p \in Updaters : SetAttEntry(p)
    \/ \E p \in Updaters : SetSyncEntry(p)
    \/ \E p \in Updaters : ReadSeq(p)
    \/ \E p \in Updaters : WriteMetaData(p)
    \/ Observe
SpecRecord == InitRecord /\ [][NextRecord]_<<vars, others>>

(* ====================================================================== *)
(*                         FindPeersWithSubnet                            *)
(* ====================================================================== *)
(* One call, step by step: the guards, then the loop of peer count check,  *)
(* context check, ReadNodes, dispatch of one dial goroutine per node and   *)
(* wg.Wait().  The dial goroutines, the iterator, the peers joining the    *)
(* topic and the cancellation of the context run beside it.                *)
MinimumPeersInSubnetSearch == 2
MaxThreshold == 2
Topics == {"attestation", "sync", "other"}
(* flags.Get().MaxConcurrentDials; the cap is active when it is positive *)
DialCaps == {0, 1, 3}
(* what ReadNodes may hand over: a node that converts to an address, one   *)
(* whose conversion fails, one whose address info is nil                   *)
NodeKinds == {"ok", "convErr", "nilInfo"}

FindStart ==
    /\ peers \in 0..MaxThreshold
    /\ ctxDone \in BOOLEAN
    /\ dials = 0
    /\ \E topic \in Topics, threshold \in 0..MaxThreshold,
          discovery \in BOOLEAN, cap \in DialCaps :
          find = [pc |-> "entry", topic |-> topic, threshold |-> threshold,
                  discovery |-> discovery, maxConcurrentDials |-> cap,
                  entryPeers |-> peers, currNum |-> 0, nodes |-> <<>>, i |-> 0,
                  readAny |-> FALSE, dialedAny |-> FALSE,
                  result |-> [line |-> 0, ok |-> FALSE, err |-> "nil"]]

FindReturn(line, ok, err) ==
    find' = [find EXCEPT !.pc = "done",
                         !.result = [line |-> line, ok |-> ok, err |-> err]]

(* lines 62-77: discovery not set, or a topic of no subnet *)
FindEntry ==
    /\ find.pc = "entry"
    /\ IF ~find.discovery THEN FindReturn(64, FALSE, "nil")
       ELSE IF find.topic = "other" THEN FindReturn(76, FALSE, "no subnet exists")
       ELSE find' = [find EXCEPT !.pc = "check"]
    /\ UNCHANGED <<peers, ctxDone, dials>>
    /\ UNCHANGED allButFind

(* lines 81-88: how an iteration begins *)
(* faulty variant: the threshold must be exceeded *)
LoopExit_Strict(currNum, threshold, cancelled) ==
    IF currNum > threshold THEN "found"
    ELSE IF cancelled THEN "cancelled" ELSE "continue"
(* faulty variant: the context is never looked at *)
LoopExit_NoCancel(currNum, threshold, cancelled) ==
    IF currNum >= threshold THEN "found" ELSE "continue"
LoopExit(currNum, threshold, cancelled) ==
    IF currNum >= threshold THEN "found"
    ELSE IF cancelled THEN "cancelled" ELSE "continue"

FindCheck ==
    /\ find.pc = "check"
    /\ LET exit == LoopExit(peers, find.threshold, ctxDone)
           f == [find EXCEPT !.currNum = peers]
       IN CASE exit = "found" ->
                 find' = [f EXCEPT !.pc = "done",
                     !.result = [line |-> 116, ok |-> TRUE, err |-> "nil"]]
            [] exit = "cancelled" ->
                 find' = [f EXCEPT !.pc = "done",
                     !.result = [line |-> 86, ok |-> FALSE,
                                 err |-> "unable to find requisite number of peers"]]
            [] OTHER -> find' = [f EXCEPT !.pc = "read", !.nodes = <<>>]
    /\ UNCHANGED <<peers, ctxDone, dials>>
    /\ UNCHANGED allButFind

(* lines 89-93 *)
NodeCount(maxConcurrentDials) ==
    IF maxConcurrentDials > 0 /\ maxConcurrentDials < MinimumPeersInSubnetSearch
    THEN maxConcurrentDials ELSE MinimumPeersInSubnetSearch

(* line 94, enode.ReadNodes: the filtered iterator hands over one more     *)
(* node; it does so only while the context is not done                     *)
IterNext ==
    /\ find.pc = "read"
    /\ Len(find.nodes) < NodeCount(find.maxConcurrentDials)
    /\ ~ctxDone
    /\ \E n \in NodeKinds :
          find' = [find EXCEPT !.nodes = Append(@, n), !.readAny = TRUE]
    /\ UNCHANGED <<peers, ctxDone, dials>>
    /\ UNCHANGED allButFind

(* line 94: ReadNodes returns, with nodeCount nodes, or with fewer when    *)
(* the filter (which was given ctx at lines 72 and 74) finds the context   *)
(* done at the next node of the random walk                                *)
ReadNodesReturn ==
    /\ find.pc = "read"
    /\ Len(find.nodes) = NodeCount(find.maxConcurrentDials) \/ ctxDone
    /\ find' = [find EXCEPT !.pc = "dispatch", !.i = 1]
    /\ UNCHANGED <<peers, ctxDone, dials>>
    /\ UNCHANGED allButFind

(* lines 95-112: one node of the batch; wg.Add(1) and the goroutine for a  *)
(* node with an address, nothing for the others                            *)
Dispatch ==
    /\ find.pc = "dispatch"
    /\ IF find.i > Len(find.nodes)
       THEN /\ find' = [find EXCEPT !.pc = "wait"]
            /\ UNCHANGED dials
       ELSE IF find.nodes[find.i] = "ok"
       THEN /\ find' = [find EXCEPT !.i = @ + 1, !.dialedAny = TRUE]
            /\ dials' = dials + 1
       ELSE /\ find' = [find EXCEPT !.i = @ + 1]
            /\ UNCHANGED dials
    /\ UNCHANGED <<peers, ctxDone>>
    /\ UNCHANGED allButFind

(* lines 107-110: a dial goroutine ends, wg.Done(); a successful dial adds *)
(* a peer to the topic                                                     *)
DialDone ==
    /\ dials > 0
    /\ dials' = dials - 1
    /\ \E connected \in BOOLEAN :
          peers' = IF connected /\ peers < MaxThreshold THEN peers + 1 ELSE peers
    /\ UNCHANGED <<find, ctxDone>>
    /\ UNCHANGED allButFind

(* line 114: wg.Wait() *)
(* faulty variant: the loop goes on without waiting *)
BatchSettled_NoWait(inFlight) == TRUE
BatchSettled(inFlight) == inFlight = 0
Wait ==
    /\ find.pc = "wait"
    /\ BatchSettled(dials)
    /\ find' = [find EXCEPT !.pc = "check"]
    /\ UNCHANGED <<peers, ctxDone, dials>>
    /\ UNCHANGED allButFind

(* a peer subscribes to the topic by another way than these dials *)
PeerJoin ==
    /\ find.pc \notin {"entry", "done"}
    /\ peers < MaxThreshold
    /\ peers' = peers + 1
    /\ UNCHANGED <<find, ctxDone, dials>>
    /\ UNCHANGED allButFind

(* the caller cancels the context, or its deadline passes *)
Cancel ==
    /\ find.pc \notin {"entry", "done"}
    /\ ~ctxDone
    /\ ctxDone' = TRUE
    /\ UNCHANGED <<find, peers, dials>>
    /\ UNCHANGED allButFind

InitFind == EecInit /\ GpaIdle /\ RecordInit /\ FindStart /\ LockerInit /\ SubnetsIdle
    /\ PersistInit /\ HasPeerIdle
NextFind ==
    \/ FindEntry \/ FindCheck \/ IterNext \/ ReadNodesReturn \/ Dispatch
    \/ DialDone \/ Wait \/ PeerJoin \/ Cancel
SpecFind == InitFind /\ [][NextFind]_<<vars, others>>
(* The steps of the call and of its goroutines are taken when they can be; *)
(* every dial ends; a read pending when the context is done ends, as the   *)
(* random walk keeps handing nodes to the filter.  That a node passing the *)
(* filter turns up is not assumed.                                         *)
FairSpecFind ==
    /\ SpecFind
    /\ WF_<<vars, others>>(FindEntry \/ FindCheck \/ Dispatch \/ Wait)
    /\ WF_<<vars, others>>(ReadNodesReturn)
    /\ WF_<<vars, others>>(DialDone)

(* ====================================================================== *)
(*                             subnetLocker                               *)
(* ====================================================================== *)
(* Concurrent callers, each running the statements of subnetLocker one at  *)
(* a time.  A lock object is identified by the order of its allocation.    *)
MaxLockerCalls == 3

(* line 363: a caller asks for the lock of key i *)
SubnetLockerCall(p) ==
    /\ lockers[p].pc = "idle"
    /\ Len(lockLog.returned)
         + Cardinality({q \in Lockers : lockers[q].pc # "idle"}) < MaxLockerCalls
    /\ \E i \in LockerKeys :
          lockers' = [lockers EXCEPT ![p] =
                         [pc |-> "lock", i |-> i, l |-> 0, ok |-> FALSE]]
    /\ UNCHANGED <<subnetsLock, subnetsLockLock, lockLog>>
    /\ UNCHANGED allButLocker

(* line 364: s.subnetsLockLock.Lock() *)
(* faulty variant: the outer mutex is not taken *)
MutexFree_NotTaken(holder) == TRUE
MutexFree(holder) == holder = 0
LockOuter(p) ==
    /\ lockers[p].pc = "lock"
    /\ MutexFree(subnetsLockLock)
    /\ subnetsLockLock' = p
    /\ lockers' = [lockers EXCEPT ![p].pc = "lookup"]
    /\ UNCHANGED <<subnetsLock, lockLog>>
    /\ UNCHANGED allButLocker

(* line 366: l, ok := s.subnetsLock[i] *)
Lookup(p) ==
    /\ lockers[p].pc = "lookup"
    /\ lockers' = [lockers EXCEPT
           ![p].l = subnetsLock[lockers[p].i],
           ![p].ok = subnetsLock[lockers[p].i] # 0,
           ![p].pc = IF subnetsLock[lockers[p].i] # 0 THEN "return" ELSE "create"]
    /\ UNCHANGED <<subnetsLock, subnetsLockLock, lockLog>>
    /\ UNCHANGED allButLocker

(* lines 367-370: a new RWMutex, stored under the key *)
CreateLock(p) ==
    /\ lockers[p].pc = "create"
    /\ lockLog' = [lockLog EXCEPT !.allocated = @ + 1]
    /\ subnetsLock' = [subnetsLock EXCEPT ![lockers[p].i] = lockLog.allocated + 1]
    /\ lockers' = [lockers EXCEPT ![p].l = lockLog.allocated + 1,
                                  ![p].pc = "return"]
    /\ UNCHANGED subnetsLockLock
    /\ UNCHANGED allButLocker

(* lines 371 and 365: return l, and the deferred Unlock() *)
ReturnLock(p) ==
    /\ lockers[p].pc = "return"
    /\ lockLog' = [lockLog EXCEPT
           !.returned = Append(@, [key |-> lockers[p].i, lock |-> lockers[p].l])]
    /\ subnetsLockLock' = 0
    /\ lockers' = [lockers EXCEPT ![p].pc = "idle"]
    /\ UNCHANGED subnetsLock
    /\ UNCHANGED allButLocker

InitLocker == EecInit /\ GpaIdle /\ RecordInit /\ FindIdle /\ LockerInit /\ SubnetsIdle
    /\ PersistInit /\ HasPeerIdle
NextLocker ==
    \/ \E p \in Lockers : SubnetLockerCall(p)
    \/ \E p \in Lockers : LockOuter(p)
    \/ \E p \in Lockers : Lookup(p)
    \/ \E p \in Lockers : CreateLock(p)
    \/ \E p \in Lockers : ReturnLock(p)
SpecLocker == InitLocker /\ [][NextLocker]_<<vars, others>>

(* ====================================================================== *)
(*                     computeSubscribedSubnets                           *)
(* ====================================================================== *)
(* The arithmetic of the persistent subnet assignment, at a reduced scale: *)
(* uint64 is an unsigned word of UintBits bits, a node id has NodeIdBits   *)
(* bits.  As in the mainnet configuration, EpochsPerSubnetSubscription is  *)
(* a power of two dividing the word's modulus, and AttestationSubnetCount  *)
(* equals 1 << AttestationSubnetPrefixBits.                                *)
UintBits == 4
Uint64 == 2 ^ UintBits
NodeIdBits == 4
AttestationSubnetPrefixBits == 2
EpochsPerSubnetSubscription == 4
SubnetsPerNode == 2
AttestationSubnetCount == 4

(* bytesutil.Bytes8: the eight little-endian bytes of a uint64 *)
Bytes8(x) == [k \in 1..8 |-> (x \div (256 ^ (k - 1))) % 256]

(* hash.Hash: the digest is kept symbolic, equal for equal inputs only *)
HashBytes(data) == <<"sha256", data>>

(* helpers.ComputeShuffledIndex: a permutation of 0..indexCount-1 chosen   *)
(* by the seed; an index outside the list is an error                      *)
ComputeShuffledIndex(index, indexCount, seed, shuffle) ==
    IF index >= indexCount
    THEN [index |-> 0, err |-> TRUE]
    ELSE [index |-> (index + seed[2][1] + 2 * seed[2][2]) % indexCount,
          err |-> FALSE]

(* lines 262-271 *)
computeOffsetAndPrefix(nodeID) ==
    LET remBits == NodeIdBits - AttestationSubnetPrefixBits
    IN  [nodeOffset |-> (nodeID % EpochsPerSubnetSubscription) % Uint64,
         nodeIdPrefix |-> (nodeID \div (2 ^ remBits)) % Uint64]

(* line 243 *)
(* faulty variant: the epoch sum is not divided into windows *)
SeedInput_NoWindow(nodeOffset, epoch) == (nodeOffset + epoch) % Uint64
SeedInput(nodeOffset, epoch) ==
    ((nodeOffset + epoch) % Uint64) \div EpochsPerSubnetSubscription

(* line 249 *)
(* faulty variant: the sum is not reduced modulo the subnet count *)
SubnetOf_Unreduced(permutatedPrefix, index) == (permutatedPrefix + index) % Uint64
SubnetOf(permutatedPrefix, index) ==
    ((permutatedPrefix + index) % Uint64) % AttestationSubnetCount

(* lines 241-251 *)
computeSubscribedSubnet(nodeID, epoch, index) ==
    LET op == computeOffsetAndPrefix(nodeID)
        permSeed == HashBytes(Bytes8(SeedInput(op.nodeOffset, epoch)))
        shuffled == ComputeShuffledIndex(op.nodeIdPrefix,
                        2 ^ AttestationSubnetPrefixBits, permSeed, TRUE)
    IN  IF shuffled.err
        THEN [subnet |-> 0, err |-> TRUE]
        ELSE [subnet |-> SubnetOf(shuffled.index, index), err |-> FALSE]

(* lines 214-226 *)
computeSubscribedSubnets(nodeID, epoch) ==
    LET each == [i \in 1..SubnetsPerNode |->
                    computeSubscribedSubnet(nodeID, epoch, i - 1)]
    IN  IF \E i \in 1..SubnetsPerNode : each[i].err
        THEN [subs |-> <<>>, err |-> TRUE]
        ELSE [subs |-> [i \in 1..SubnetsPerNode |-> each[i].subnet],
              err |-> FALSE]

(* any node id, and any two epochs of the uint64 range *)
SubnetsStart ==
    \E n \in 0..(2 ^ NodeIdBits - 1), e1, e2 \in 0..(Uint64 - 1) :
        assign = [nodeID |-> n, epochs |-> <<e1, e2>>, calls |-> <<>>]

(* one call of computeSubscribedSubnets, for the next epoch asked for *)
CallComputeSubscribedSubnets ==
    /\ Len(assign.calls) < Len(assign.epochs)
    /\ assign' = [assign EXCEPT !.calls =
           Append(@, computeSubscribedSubnets(assign.nodeID,
                         assign.epochs[Len(assign.calls) + 1]))]
    /\ UNCHANGED <<vars, gpaVars, recVars, findVars, lockVars, persist, hasPeer>>

InitSubnets == EecInit /\ GpaIdle /\ RecordInit /\ FindIdle /\ LockerInit /\ SubnetsStart
    /\ PersistInit /\ HasPeerIdle
SpecSubnets == InitSubnets /\ [][CallComputeSubscribedSubnets]_<<vars, others>>

(* ====================================================================== *)
(*                    initializePersistentSubnets                         *)
(* ====================================================================== *)
(* Time is counted in ticks of the clock, Second of them to a second (a    *)
(* time.Duration counts nanoseconds).  At the mainnet values the longest   *)
(* expiration is 256 * 32 * 12 * 10^9 ns, far below 2^63, so the int64 of  *)
(* time.Duration never wraps.                                              *)
SecondsPerSlot == 2
Second == 2
MaxNow == 32

(* line 255 *)
(* faulty variant: the node offset is left out of the epoch's position *)
PastEpochs_NoOffset(nodeOffset, epoch) == epoch % EpochsPerSubnetSubscription
PastEpochs(nodeOffset, epoch) ==
    ((nodeOffset + epoch) % Uint64) % EpochsPerSubnetSubscription

(* lines 253-260 *)
computeSubscriptionExpirationTime(nodeID, epoch) ==
    LET nodeOffset == computeOffsetAndPrefix(nodeID).nodeOffset
        pastEpochs == PastEpochs(nodeOffset, epoch)
        remEpochs == (EpochsPerSubnetSubscription - pastEpochs) % Uint64
        epochDuration == SlotsPerEpoch * SecondsPerSlot
        epochTime == remEpochs * epochDuration
    IN  epochTime * Second

(* cache.SubnetIDs.GetPersistentSubnets: the stored subnets and the time   *)
(* they expire at, if there are any                                        *)
GetPersistentSubnets ==
    IF persist.ok
    THEN [subs |-> persist.subs, ok |-> TRUE, expTime |-> persist.expTime]
    ELSE [subs |-> <<>>, ok |-> FALSE, expTime |-> 0]

(* cache.SubnetIDs.AddPersistentCommittee: the subnets replace the stored  *)
(* ones and expire the given duration from now                             *)
AddPersistentCommittee(subs, duration) ==
    [persist EXCEPT !.ok = TRUE, !.subs = subs, !.expTime = persist.now + duration]

(* line 197: ok && expTime.After(time.Now()) *)
(* faulty variant: the cached assignment is never kept *)
StillCached_Never(ok, expTime, now) == FALSE
StillCached(ok, expTime, now) == ok /\ expTime > now

(* lines 195-207, called with the node's own id and any epoch *)
InitializePersistentSubnets ==
    /\ \E epoch \in 0..(Uint64 - 1) :
          LET id == persist.id
              cached == GetPersistentSubnets
              computed == computeSubscribedSubnets(id, epoch)
              newExpTime == computeSubscriptionExpirationTime(id, epoch)
              called(op, err, duration) ==
                  [op |-> op, epoch |-> epoch, err |-> err, duration |-> duration]
          IN  IF StillCached(cached.ok, cached.expTime, persist.now)
              THEN persist' = [persist EXCEPT !.last = called("kept", FALSE, 0)]
              ELSE IF computed.err
              THEN persist' = [persist EXCEPT !.last = called("failed", TRUE, 0)]
              ELSE persist' = [AddPersistentCommittee(computed.subs, newExpTime)
                                  EXCEPT !.last = called("stored", FALSE, newExpTime)]
    /\ UNCHANGED <<vars, gpaVars, recVars, findVars, lockVars, assign, hasPeer>>

(* time.Now() moves on, by half an epoch or by an epoch; what the last    *)
(* call returned is then no longer looked at                               *)
ClockAdvance ==
    /\ \E d \in {(SlotsPerEpoch * SecondsPerSlot * Second) \div 2,
                  SlotsPerEpoch * SecondsPerSlot * Second} :
          /\ persist.now + d <= MaxNow
          /\ persist' = [persist EXCEPT !.now = @ + d, !.last = [op |-> "none"]]
    /\ UNCHANGED <<vars, gpaVars, recVars, findVars, lockVars, assign, hasPeer>>

(* a node of any id, its cache empty *)
PersistStart == \E id \in 0..(2 ^ NodeIdBits - 1) : persist = PersistOf(id)

InitPersist == EecInit /\ GpaIdle /\ RecordInit /\ FindIdle /\ LockerInit /\ SubnetsIdle
    /\ PersistStart /\ HasPeerIdle
NextPersist == InitializePersistentSubnets \/ ClockAdvance
SpecPersist == InitPersist /\ [][NextPersist]_<<vars, others>>

(* ====================================================================== *)
(*                          hasPeerWithSubnet                             *)
(* ====================================================================== *)
(* The flag is a Go int; its conversion to uint64 is the word of the       *)
(* subnet arithmetic above.                                                *)
MaxFlag == 2
MaxPeerCount == 3

(* line 161: uint64(flags.Get().MinimumPeersPerSubnet) *)
(* faulty variant: the flag keeps its sign *)
FlagAsUint64_Signed(flag) == flag
FlagAsUint64(flag) == flag % Uint64

(* lines 158-163; mathutil.Min is the smaller of two uint64 *)
hasPeerWithSubnet(listPeers, flag) ==
    LET minPeers == IF 1 <= FlagAsUint64(flag) THEN 1 ELSE FlagAsUint64(flag)
    IN  listPeers >= minPeers

(* any value of the flag, any number of peers on the topic *)
HasPeerStart ==
    \E flag \in (-MaxFlag)..MaxFlag, n \in 0..MaxPeerCount :
        hasPeer = [minimumPeersPerSubnet |-> flag, listPeers |-> n,
                   topic |-> "",
                   ret |-> [called |-> FALSE, listed |-> 0, has |-> FALSE]]

(* one call, for a topic *)
HasPeerWithSubnet ==
    /\ \E topic \in Topics :
          hasPeer' = [hasPeer EXCEPT
              !.topic = topic,
              !.ret = [called |-> TRUE, listed |-> hasPeer.listPeers,
                       has |-> hasPeerWithSubnet(hasPeer.listPeers,
                                                 hasPeer.minimumPeersPerSubnet)]]
    /\ UNCHANGED <<vars, gpaVars, recVars, findVars, lockVars, assign, persist>>

(* a peer of the topic connects or disconnects *)
PeersChange ==
    /\ \E n \in {hasPeer.listPeers - 1, hasPeer.listPeers + 1} \cap 0..MaxPeerCount :
          hasPeer' = [hasPeer EXCEPT !.listPeers = n]
    /\ UNCHANGED <<vars, gpaVars, recVars, findVars, lockVars, assign, persist>>

InitHasPeer == EecInit /\ GpaIdle /\ RecordInit /\ FindIdle /\ LockerInit /\ SubnetsIdle
    /\ PersistInit /\ HasPeerStart
NextHasPeer == HasPeerWithSubnet \/ PeersChange
SpecHasPeer == InitHasPeer /\ [][NextHasPeer]_<<vars, others>>

(* ====================================================================== *)
(*                              Properties                                *)
(* ====================================================================== *)
IsPrefix(p, q) == Len(p) <= Len(q) /\ SubSeq(q, 1, Len(p)) = p
Nfu == ret.op = "notifyForkchoiceUpdate"
Nnp == ret.op = "notifyNewPayload"
Prune == ret.op = "pruneInvalidBlock"
InvalidityRecord(root, roots) ==
    MkErr("invalidBlock", root, roots, ZeroHash, "ErrInvalidPayload")

C2_InvalidatedRootsRemoved ==
    (Nfu /\ ret.status = "INVALID")
        => SeqToSet(ret.invalidRoots) \cap (beaconDB \cup fcNodes) = {}

C4_InvalidAlwaysSurfaced ==
    (Nfu /\ ret.status = "INVALID") => ret.err.kind = "invalidBlock"

(* C5: invalid-head recovery terminates.  Every call below the innermost   *)
(* one was answered INVALID and waits in its recursive call; each          *)
(* recursive call starts from strictly fewer fork-choice roots than its    *)
(* caller did, on a head that is in fork-choice and that no call of the    *)
(* chain has invalidated; the depth never exceeds the number of roots; and *)
(* every step of a call lowers a measure that is bounded below, so the     *)
(* chain of calls ends.                                                    *)
PcWeight(pc) ==
    CASE pc = "start" -> 12 [] pc = "switch" -> 11 [] pc = "prune" -> 10
      [] pc = "head" -> 30 [] pc = "load" -> 29 [] pc = "recurse" -> 28
      [] pc = "inRecursion" -> 10 [] pc = "afterRecurse" -> 9
      [] pc = "saveHead" -> 8 [] OTHER -> 7
RECURSIVE SumWeights(_)
SumWeights(st) ==
    IF st = <<>> THEN 0 ELSE PcWeight(st[1].pc) + SumWeights(Tail(st))
Measure(st, fc) == 40 * Cardinality(fc) + SumWeights(st)
RecursionShrinks(st) ==
    /\ Len(st) <= Cardinality(Roots)
    /\ \A i \in 1..Len(st) - 1 :
          /\ st[i].status = "INVALID" /\ st[i].pc = "inRecursion"
          /\ st[i + 1].fcAtEntry \subseteq st[i].fcAtEntry
          /\ st[i + 1].fcAtEntry # st[i].fcAtEntry
          /\ st[i + 1].headRoot \in st[i + 1].fcAtEntry
          /\ \A j \in 1..i : st[i + 1].headRoot \notin SeqToSet(st[j].invalidRoots)
C5_RecoveryTerminates ==
    [][/\ RecursionShrinks(stack')
       /\ (stack # <<>> /\ stack' # stack)
            => /\ Measure(stack', fcNodes') < Measure(stack, fcNodes)
               /\ Measure(stack', fcNodes') >= 0
               /\ fcNodes' \subseteq fcNodes]_vars

C5_Witness ==
    /\ Len(stack) = 3
    /\ stack[3].status = "INVALID" /\ stack[3].pc = "head"

(* C6: within one recovery the steps run in the order prune (fork-choice   *)
(* invalidation and removal from the stores), Head query, loading and the  *)
(* recursive notification, saveHead: the Head query is made only when      *)
(* every invalidated root is gone from fork-choice and the block store,    *)
(* and saveHead only after the recursive call has returned.                *)
RecoveryOrdered(f) ==
    /\ IsPrefix(f.done, <<"prune", "head", "load", "recurse", "saveHead">>)
    /\ Len(f.done) >= 1 =>
          /\ f.invalidRoots # <<>>
          /\ SeqToSet(f.invalidRoots) \cap (fcNodes \cup beaconDB) = {}
C6_RecoveryOrder ==
    /\ \A i \in 1..Len(stack) : RecoveryOrdered(stack[i])
    /\ Nfu => RecoveryOrdered(ret)
    /\ (Nfu /\ ret.line = 138) =>
          ret.done = <<"prune", "head", "load", "recurse", "saveHead">>

C6_Witness ==
    /\ Nfu /\ ret.line = 138 /\ ret.depth = 1
    /\ ret.done = <<"prune", "head", "load", "recurse", "saveHead">>
    /\ canonicalHead = ret.newHead

(* C7: the step that handles a SYNCING/ACCEPTED answer adds exactly one to *)
(* the optimistic counter, leaves fork-choice (the valid marks included),  *)
(* the stores and the payload-id cache as they are, and returns the        *)
(* engine's payload id with a nil error.                                   *)
C7_OptimisticFrame ==
    [][(AtPc("switch") /\ Top.status = "SYNCING" /\ stack' # stack)
         => /\ metrics' = [metrics EXCEPT !.forkchoiceUpdatedOptimistic = @ + 1]
            /\ UNCHANGED <<fcNodes, fcValid, beaconDB, stateCaches,
                           blobStorage, payloadIDCache, canonicalHead>>
            /\ Len(stack') = Len(stack) - 1
            /\ ret'.line = 82 /\ ret'.headRoot = Top.headRoot
            /\ ret'.pid = Top.payloadID /\ ret'.err = NoErr]_vars

C7_Witness ==
    /\ Nfu /\ ret.line = 82 /\ ret.status = "SYNCING" /\ ret.pid # NilPid
    /\ metrics.forkchoiceUpdatedOptimistic = 1
    /\ ret.headRoot \notin fcValid

(* C8: when notifyNewPayload asks the engine (a non-nil block, a pre-state *)
(* at Bellatrix or later, execution enabled), VALID gives (true, nil),     *)
(* SYNCING/ACCEPTED (false, nil), INVALID (false, invalid block with the   *)
(* engine's last valid hash as 32 bytes), any other error (false, the      *)
(* undefined-engine error carrying the original message).                  *)
C8_NewPayloadMapping ==
    (Nnp /\ ret.status # "none")
        => /\ ret.headBlock = "block"
           /\ ret.preStateVersion \notin {"Phase0", "Altair"}
           /\ ret.valid <=> ret.status = "VALID"
           /\ ret.status \in {"VALID", "SYNCING"} => ret.err = NoErr
           /\ ret.status = "INVALID" =>
                /\ ret.err.kind = "invalidBlock"
                /\ ret.err.lastValidHash = ToBytes32(ret.lastValidHash)
           /\ ret.status \notin {"VALID", "SYNCING", "INVALID"} =>
                /\ ret.err.kind = "ErrUndefinedExecutionEngineError"
                /\ ret.err.cause = ret.status

C8_Witness ==
    /\ Nnp /\ ret.status = "INVALID" /\ ret.lastValidHash = Hash(204)
    /\ ret.err.lastValidHash = Hash(204) /\ ~ret.valid

(* C9 (as claimed): a notifyNewPayload call with a pre-state before        *)
(* Bellatrix returns (true, nil) without asking the engine, whatever the   *)
(* block, a nil block included.                                            *)
C9_PreBellatrixValid ==
    (Nnp /\ ret.preStateVersion \in {"Phase0", "Altair"})
        => ret.valid /\ ret.err = NoErr /\ ret.status = "none"

(* C9 (amended): the same for every block argument that is not the nil     *)
(* interface (a block whose inner block is nil included); with a nil       *)
(* block argument the call returns (false, error), also without asking the *)
(* engine.                                                                 *)
C9_PreBellatrixValidNonNil ==
    (Nnp /\ ret.preStateVersion \in {"Phase0", "Altair"})
        => /\ ret.status = "none"
           /\ ret.headBlock # "nil" => (ret.valid /\ ret.err = NoErr)
           /\ ret.headBlock = "nil" => (~ret.valid /\ ret.err # NoErr)

C9_Witness ==
    /\ Nnp /\ ret.preStateVersion = "Altair" /\ ret.headBlock = "nilInner"
    /\ ret.valid /\ ret.err = NoErr

(* C10 (as claimed): pruneInvalidBlock always returns an invalid-block     *)
(* error carrying the invalidated roots and the last valid hash.           *)
C10_PruneAlwaysInvalidityRecord ==
    Prune => /\ ret.err.kind = "invalidBlock"
             /\ ret.err.invalidAncestorRoots = ret.invalidRoots
             /\ ret.err.lastValidHash = ret.lastValidHash

(* C10 (amended): pruneInvalidBlock never returns nil; it returns the      *)
(* invalid-block error carrying the invalidated roots and the last valid   *)
(* hash when SetOptimisticToInvalid and every store deletion succeed, and  *)
(* otherwise the bare error of the fork-choice or store operation that     *)
(* failed.                                                                 *)
C10_PruneRecordOrBareError ==
    Prune => /\ ret.err # NoErr
             /\ ret.line = 274 =>
                  /\ ret.err.kind = "invalidBlock"
                  /\ ret.invalidRoots # <<>>
                  /\ ret.err.invalidAncestorRoots = ret.invalidRoots
                  /\ ret.err.lastValidHash = ret.lastValidHash
                  /\ SeqToSet(ret.invalidRoots) \cap (fcNodes \cup beaconDB) = {}
             /\ ret.line = 265 => ret.err = BareErr("forkchoice")
             /\ ret.line = 268 => ret.err = BareErr("store")
             /\ ret.line \in {265, 268, 274}

C10_Witness ==
    /\ Prune /\ ret.line = 274 /\ Len(ret.invalidRoots) > 1
    /\ ret.err.kind = "invalidBlock"
    /\ metrics.newPayloadInvalid = 1

(* C11 (as claimed): when the engine answers INVALID to                    *)
(* notifyForkchoiceUpdate with an empty last valid hash, the hash handed   *)
(* to SetOptimisticToInvalid is 32 bytes that are all 0xff; a non-empty    *)
(* last valid hash is handed on unchanged.                                 *)
InNfu == InCall \/ Nfu
GpaReturned == gpa.phase = "returned"
C12_ProposerLookupState ==
    GpaReturned =>
        LET e == ToEpoch(gpa.slot)
            stateEpoch == ToEpoch(gpa.st.slot)
            r == gpa.res
        IN /\ e = stateEpoch =>
                /\ r.lookups = <<gpa.st>>
                /\ gpa.st.proposer \notin gpa.tracked =>
                      r.attr = EmptyWithVersion(gpa.st.version) /\ r.line = 296
           /\ e > stateEpoch =>
                /\ r.lookups = IF gpa.advanced.err THEN <<>> ELSE <<gpa.advanced>>
                /\ gpa.st \notin SeqToSet(r.lookups)
                /\ r.attr.empty \/ gpa.advanced.proposer \in gpa.tracked
                /\ (~gpa.advanced.err /\ gpa.advanced.proposer \notin gpa.tracked)
                      => r.attr = EmptyWithVersion(gpa.advanced.version)
                /\ ~r.attr.empty =>
                      r.attr.suggestedFeeRecipient =
                          FeeRecipientOf(gpa.advanced.proposer)

C12_Witness ==
    /\ GpaReturned
    /\ ToEpoch(gpa.slot) > ToEpoch(gpa.st.slot)
    /\ gpa.st.proposer \in gpa.tracked
    /\ ~gpa.advanced.err /\ gpa.advanced.proposer \notin gpa.tracked
    /\ gpa.res.line = 312 /\ gpa.res.attr.empty
    /\ gpa.res.lookups = <<gpa.advanced>>

(* C13 (as claimed): a record update is atomic for a concurrent reader:    *)
(* whatever a reader takes of the local node record and of the metadata at *)
(* one moment, the bitfields of the record are those of the metadata, never *)
(* the bitfield of a new update beside the metadata of the previous one.    *)
C13_RecordUpdateAtomic ==
    observed.taken =>
        /\ observed.localNode.attnets = observed.metaData.attnets
        /\ observed.metaData.version = "V1" =>
              observed.localNode.syncnets = observed.metaData.syncnets

(* C14 (as claimed): when n record updates have completed and none is      *)
(* under way, whatever the interleaving of their callers was, the sequence *)
(* number of the metadata is its initial value plus n, and the bitfields   *)
(* of the metadata and of the local node record are those of the update    *)
(* that completed last.                                                    *)
C14_SeqCountsUpdates ==
    (\A p \in Updaters : updaters[p].pc = "idle") =>
        /\ metaData.seq = updates.n
        /\ updates.n > 0 =>
              /\ metaData.attnets = updates.bitVAtt
              /\ localNode.attnets = updates.bitVAtt
              /\ updates.version = "V1" =>
                    /\ metaData.syncnets = updates.bitVSync
                    /\ localNode.syncnets = updates.bitVSync

(* C15: at every moment of a FindPeersWithSubnet call the dial goroutines  *)
(* in flight are at most MinimumPeersInSubnetSearch, and at most           *)
(* MaxConcurrentDials too when the dial cap is active; and while a dial of *)
(* the batch is unfinished the loop is dispatching or waiting: it neither  *)
(* checks the peer count again nor reads from the iterator.                *)
C15_BoundedDials ==
    find.pc # "idle" =>
        /\ dials <= MinimumPeersInSubnetSearch
        /\ find.maxConcurrentDials > 0 => dials <= find.maxConcurrentDials
        /\ dials > 0 => find.pc \in {"dispatch", "wait"}

C15_Witness ==
    /\ find.pc = "wait" /\ find.maxConcurrentDials = 0
    /\ dials = MinimumPeersInSubnetSearch /\ dials > 1

(* C16 (as claimed): a call entered with the peer count of the topic at or *)
(* above threshold returns (true, nil) without reading the iterator and    *)
(* without dispatching a dial, whatever the topic and whether or not       *)
(* discovery is set.                                                       *)
C16_ThresholdMetAtEntry ==
    (find.pc = "done" /\ find.entryPeers >= find.threshold)
        => /\ find.result.ok /\ find.result.err = "nil"
           /\ ~find.readAny /\ ~find.dialedAny

(* C16 (amended): the same for a call with discovery set and an            *)
(* attestation or sync-committee topic; it returns at line 116, also when  *)
(* the context is already cancelled.  Without discovery the call returns   *)
(* (false, nil), with another topic (false, error), before the count is    *)
(* looked at.                                                              *)
C16_ThresholdMetInLoop ==
    (find.pc = "done" /\ find.entryPeers >= find.threshold)
        => /\ ~find.readAny /\ ~find.dialedAny
           /\ IF find.discovery /\ find.topic # "other"
              THEN /\ find.result = [line |-> 116, ok |-> TRUE, err |-> "nil"]
                   /\ find.currNum >= find.threshold
              ELSE ~find.result.ok /\ find.result.line \in {64, 76}

C16_Witness ==
    /\ find.pc = "done" /\ find.entryPeers = find.threshold /\ find.threshold > 0
    /\ find.discovery /\ find.topic = "sync" /\ ctxDone
    /\ find.result.ok /\ find.result.err = "nil"
    /\ ~find.readAny /\ ~find.dialedAny

(* C17 (as claimed): a call returns once the peer count has reached the    *)
(* threshold or the context is cancelled, given that every dial ends; and  *)
(* once the context is cancelled with the count below threshold no further *)
(* dial is dispatched and a call that ends in the loop with the count      *)
(* below threshold returns (false, error).                                 *)
C17_ReturnsOnThresholdOrCancel ==
    /\ (ctxDone \/ peers >= find.threshold) ~> (find.pc = "done")
    /\ [][(ctxDone /\ peers < find.threshold) => dials' <= dials]_<<vars, others>>
    /\ [](find.pc = "done" /\ find.result.line = 86
            => ~find.result.ok /\ find.result.err # "nil")

(* C17 (amended): given that every dial ends and that a read pending at    *)
(* cancellation ends (the random walk keeps handing nodes to the filter,   *)
(* which looks at the context), a call returns once the context is         *)
(* cancelled.  It returns (false, error) when it finds, at the top of an   *)
(* iteration, the context done and the count below threshold, with no dial *)
(* in flight; it returns (true, nil) from the loop only with the count at  *)
(* or above threshold.  The nodes read before the cancellation are still   *)
(* dialed, and reaching the threshold does not end a pending read.         *)
C17_ReturnsOnCancel ==
    /\ ctxDone ~> (find.pc = "done")
    /\ [](find.pc = "done" =>
            /\ dials = 0
            /\ find.result.line = 86 =>
                  /\ ctxDone /\ find.currNum < find.threshold
                  /\ ~find.result.ok /\ find.result.err # "nil"
            /\ find.result.line = 116 =>
                  /\ find.currNum >= find.threshold
                  /\ find.result.ok /\ find.result.err = "nil"
            /\ find.result.line \in {64, 76, 86, 116})

C17_Witness ==
    /\ find.pc = "done" /\ find.result.line = 86
    /\ find.readAny /\ find.dialedAny
    /\ ctxDone /\ peers < find.threshold

(* C18: whatever the interleaving of concurrent subnetLocker calls, calls  *)
(* with the same key return the same lock object and calls with different  *)
(* keys different ones; one lock is allocated per key asked for, and a     *)
(* lock stored under a key is never replaced.                              *)
C18_OneLockPerKey ==
    /\ [](/\ \A a, b \in SeqToSet(lockLog.returned) :
                (a.key = b.key) <=> (a.lock = b.lock)
          /\ \A a \in SeqToSet(lockLog.returned) :
                a.lock # 0 /\ subnetsLock[a.key] = a.lock
          /\ lockLog.allocated =
                Cardinality({k \in LockerKeys : subnetsLock[k] # 0}))
    /\ [][\A k \in LockerKeys :
            subnetsLock[k] # 0 => subnetsLock'[k] = subnetsLock[k]]_<<vars, others>>

C18_Witness ==
    /\ Len(lockLog.returned) = 3
    /\ lockLog.returned[1].key = lockLog.returned[2].key
    /\ lockLog.returned[1].lock = lockLog.returned[2].lock
    /\ lockLog.returned[3].key # lockLog.returned[1].key
    /\ lockLog.returned[3].lock # lockLog.returned[1].lock

(* C19: for every node id and every epoch of the uint64 range, a call of   *)
(* computeSubscribedSubnets succeeds and returns exactly SubnetsPerNode    *)
(* values, the value at index i being computeSubscribedSubnet(N, E, i) and *)
(* lying in [0, AttestationSubnetCount).                                   *)
C19_SubnetsInRange ==
    \A c \in 1..Len(assign.calls) :
        /\ ~assign.calls[c].err
        /\ Len(assign.calls[c].subs) = SubnetsPerNode
        /\ \A i \in 1..SubnetsPerNode :
              /\ assign.calls[c].subs[i] \in 0..(AttestationSubnetCount - 1)
              /\ assign.calls[c].subs[i] =
                    computeSubscribedSubnet(assign.nodeID, assign.epochs[c], i - 1).subnet

(* a call whose epoch sum wraps around the word and whose last subnet      *)
(* wraps around the subnet count                                           *)
C19_Witness ==
    /\ Len(assign.calls) >= 1
    /\ computeOffsetAndPrefix(assign.nodeID).nodeOffset + assign.epochs[1] >= Uint64
    /\ Len(assign.calls[1].subs) = SubnetsPerNode
    /\ assign.calls[1].subs[SubnetsPerNode] < assign.calls[1].subs[1]

(* C20: two epochs of one subscription window, the window being            *)
(* (node_offset + E) div EpochsPerSubnetSubscription in uint64 arithmetic, *)
(* get the same assignment, element by element.                            *)
C20_StableInWindow ==
    LET offset == assign.nodeID % EpochsPerSubnetSubscription
        window(e) == ((offset + e) % Uint64) \div EpochsPerSubnetSubscription
    IN  (Len(assign.calls) = 2 /\ window(assign.epochs[1]) = window(assign.epochs[2]))
            => /\ Len(assign.calls[1].subs) = Len(assign.calls[2].subs)
               /\ \A i \in 1..Len(assign.calls[1].subs) :
                     assign.calls[1].subs[i] = assign.calls[2].subs[i]

(* two different epochs of one window, both assignments computed *)
C20_Witness ==
    LET offset == assign.nodeID % EpochsPerSubnetSubscription
        window(e) == ((offset + e) % Uint64) \div EpochsPerSubnetSubscription
    IN  /\ Len(assign.calls) = 2
        /\ assign.epochs[1] # assign.epochs[2]
        /\ window(assign.epochs[1]) = window(assign.epochs[2])
        /\ Len(assign.calls[1].subs) = SubnetsPerNode
        /\ assign.calls[1].subs = assign.calls[2].subs

(* C21: the expiration computed by computeSubscriptionExpirationTime for   *)
(* any node id and epoch is strictly positive, at most                     *)
(* EpochsPerSubnetSubscription * SlotsPerEpoch * SecondsPerSlot seconds,   *)
(* and a whole number n of epochs that is the distance to the next window: *)
(* the seed input of the assignment is the same for the epochs E..E+n-1    *)
(* and another one at E+n (epochs being uint64).                           *)
C21_ExpirationIsWindowRest ==
    persist.last.op = "stored" =>
        LET E == persist.last.epoch
            duration == persist.last.duration
            epochTicks == SlotsPerEpoch * SecondsPerSlot * Second
            n == duration \div epochTicks
            offset == persist.id % EpochsPerSubnetSubscription
            seed(e) == ((offset + (e % Uint64)) % Uint64) \div EpochsPerSubnetSubscription
        IN  /\ duration = computeSubscriptionExpirationTime(persist.id, E)
            /\ duration > 0
            /\ duration <= EpochsPerSubnetSubscription * SlotsPerEpoch
                             * SecondsPerSlot * Second
            /\ duration = n * epochTicks
            /\ \A k \in 0..(n - 1) : seed(E + k) = seed(E)
            /\ seed(E + n) # seed(E)

(* an expiration of more than one epoch and less than a whole window, for  *)
(* an epoch whose sum with the node offset wraps around                    *)
C21_Witness ==
    /\ persist.last.op = "stored"
    /\ (persist.id % EpochsPerSubnetSubscription) + persist.last.epoch >= Uint64
    /\ persist.last.duration > SlotsPerEpoch * SecondsPerSlot * Second
    /\ persist.last.duration < EpochsPerSubnetSubscription * SlotsPerEpoch
                                 * SecondsPerSlot * Second

(* C24: a call of initializePersistentSubnets while the cached assignment  *)
(* has not expired leaves the cache as it is and returns nil; otherwise,   *)
(* the computation succeeding, the cache then holds                        *)
(* computeSubscribedSubnets(id, epoch), expiring                           *)
(* computeSubscriptionExpirationTime(id, epoch) from now, and nil is       *)
(* returned; the computation failing, the cache is left as it is and the   *)
(* error is returned.                                                      *)
C24_CachedUntilExpired ==
    [][persist'.last.op # "none" =>
        LET epoch == persist'.last.epoch
            computed == computeSubscribedSubnets(persist.id, epoch)
            cacheOf(p) == <<p.ok, p.subs, p.expTime>>
        IN  IF persist.ok /\ persist.expTime > persist.now
            THEN cacheOf(persist') = cacheOf(persist) /\ ~persist'.last.err
            ELSE IF computed.err
            THEN cacheOf(persist') = cacheOf(persist) /\ persist'.last.err
            ELSE /\ cacheOf(persist') =
                       <<TRUE, computed.subs,
                         persist.now + computeSubscriptionExpirationTime(persist.id, epoch)>>
                 /\ ~persist'.last.err
    ]_<<vars, others>>

(* a call after time has passed that kept a cached assignment other than   *)
(* the one its own epoch gives                                             *)
C24_Witness ==
    /\ persist.last.op = "kept"
    /\ persist.now > 0
    /\ persist.ok /\ persist.expTime > persist.now
    /\ computeSubscribedSubnets(persist.id, persist.last.epoch).subs # persist.subs

(* C22 as stated: the answer of hasPeerWithSubnet is true exactly if the   *)
(* topic has at least min(1, MinimumPeersPerSubnet) peers, for every value *)
(* of the flag, negative ones included.                                    *)
C22_ThresholdIsMinOfFlag ==
    hasPeer.ret.called =>
        LET flag == hasPeer.minimumPeersPerSubnet
            min == IF 1 <= flag THEN 1 ELSE flag
        IN  hasPeer.ret.has <=> (hasPeer.ret.listed >= min)

(* C22 amended: the flag is read as a uint64, so the threshold is 0 for a  *)
(* flag of 0 and 1 for every other value, negative ones included: the      *)
(* answer is true exactly if the flag is 0 or the topic has a peer.        *)
C22_ThresholdIsMinOfUnsignedFlag ==
    hasPeer.ret.called =>
        (hasPeer.ret.has <=>
            (hasPeer.minimumPeersPerSubnet = 0 \/ hasPeer.ret.listed >= 1))

(* a call with a negative flag and no peer on the topic: the answer is no *)
C22_Witness ==
    /\ hasPeer.ret.called
    /\ hasPeer.minimumPeersPerSubnet < 0
    /\ hasPeer.ret.listed = 0
    /\ ~hasPeer.ret.has

(* C23: an invocation of notifyForkchoiceUpdate whose engine call fails    *)
(* with an error that is neither the accepted/syncing nor the invalid      *)
(* status returns (nil, nil), and none of its steps (the guards and the    *)
(* engine call, then the handling of the error) changes fork-choice, the   *)
(* block / state / blob stores, the payload-id cache or the canonical      *)
(* head.                                                                   *)
C23_UndefinedErrorSwallowed ==
    [][/\ (AtPc("start") /\ stack' # stack)
            => UNCHANGED <<fcNodes, fcValid, beaconDB, stateCaches,
                           blobStorage, payloadIDCache, canonicalHead>>
       /\ (AtPc("switch") /\ Top.status = "ERROR" /\ stack' # stack)
            => /\ UNCHANGED <<fcNodes, fcValid, beaconDB, stateCaches,
                              blobStorage, payloadIDCache, canonicalHead>>
               /\ Len(stack') = Len(stack) - 1
               /\ ret'.line = 141 /\ ret'.headRoot = Top.headRoot
               /\ ret'.pid = NilPid /\ ret'.err = NoErr]_vars

(* a top-level call answered with such an error has returned, everything   *)
(* as it was before the call                                               *)
C23_Witness ==
    /\ Nfu /\ ret.line = 141 /\ ret.status = "ERROR" /\ ret.depth = 1
    /\ ret.pid = NilPid /\ ret.err = NoErr
    /\ fcNodes = Roots /\ fcValid = {1} /\ beaconDB = Roots
    /\ stateCaches = Roots /\ blobStorage = Roots \ {1}
    /\ payloadIDCache = {} /\ canonicalHead = MaxRoots

(* C25 as stated: the step that observes an engine answer adds one to the  *)
(* counter of that answer and changes no other counter: for                *)
(* ForkchoiceUpdated the forkchoiceUpdated{Valid,Invalid,Optimistic}       *)
(* counter, for NewPayload the newPayload{Valid,Invalid,Optimistic}        *)
(* counter, inside notifyNewPayload.                                       *)
C25_OutcomeCountedWhereObserved ==
    [][LET fcu == [VALID |-> "forkchoiceUpdatedValid",
                   INVALID |-> "forkchoiceUpdatedInvalid",
                   SYNCING |-> "forkchoiceUpdatedOptimistic"]
           np == [VALID |-> "newPayloadValid",
                  INVALID |-> "newPayloadInvalid",
                  SYNCING |-> "newPayloadOptimistic"]
       IN  /\ (AtPc("switch") /\ stack' # stack /\ Top.status \in DOMAIN fcu)
                => metrics' = [metrics EXCEPT ![fcu[Top.status]] = @ + 1]
           /\ (ret'.op = "notifyNewPayload" /\ ncalls' # ncalls
                 /\ ret'.status \in DOMAIN np)
                => metrics' = [metrics EXCEPT ![np[ret'.status]] = @ + 1]]_vars

(* C25 amended: a ForkchoiceUpdated answer of VALID, INVALID or            *)
(* SYNCING/ACCEPTED adds one to its forkchoiceUpdated counter in the step  *)
(* that observes it; a NewPayload answer of VALID or SYNCING/ACCEPTED adds *)
(* one to newPayloadValid or newPayloadOptimistic inside notifyNewPayload, *)
(* an INVALID answer changes no counter there; newPayloadInvalid is        *)
(* incremented by one by each call of pruneInvalidBlock; no other step     *)
(* and no other answer changes a counter.                                  *)
C25_OutcomeCountedOnce ==
    [][LET fcu == [VALID |-> "forkchoiceUpdatedValid",
                   INVALID |-> "forkchoiceUpdatedInvalid",
                   SYNCING |-> "forkchoiceUpdatedOptimistic"]
           np == [VALID |-> "newPayloadValid",
                  SYNCING |-> "newPayloadOptimistic"]
           fcuStep == AtPc("switch") /\ stack' # stack /\ Top.status \in DOMAIN fcu
           npStep == ret'.op = "notifyNewPayload" /\ ncalls' # ncalls
                        /\ ret'.status \in DOMAIN np
           pruneStep == ret'.op = "pruneInvalidBlock" /\ ncalls' # ncalls
       IN  /\ fcuStep => metrics' = [metrics EXCEPT ![fcu[Top.status]] = @ + 1]
           /\ npStep => metrics' = [metrics EXCEPT ![np[ret'.status]] = @ + 1]
           /\ pruneStep => metrics' = [metrics EXCEPT !.newPayloadInvalid = @ + 1]
           /\ ~(fcuStep \/ npStep \/ pruneStep) => metrics' = metrics]_vars

(* notifyNewPayload has returned the invalid-block error for an INVALID    *)
(* answer, and no counter has moved                                        *)
C25_Witness ==
    /\ Nnp /\ ret.status = "INVALID" /\ ret.err.kind = "invalidBlock"
    /\ ncalls = 1 /\ metrics = ZeroMetrics

(* C26: over any sequence of notifyForkchoiceUpdate calls, the recursive   *)
(* ones of the invalid-head recovery included, a root becomes valid in     *)
(* fork-choice, and a payload-id cache entry is written, only in the step  *)
(* of an invocation that handles a VALID answer of its own engine call,    *)
(* and for that invocation's head root; inside the recovery this is the    *)
(* new head the enclosing invocation recursed on, never the head root of   *)
(* an enclosing invocation.                                                *)
C26_PromotionOnlyByOwnValidAnswer ==
    [][LET validStep == AtPc("switch") /\ Top.status = "VALID"
           ownHead(r) ==
               /\ r = Top.headRoot
               /\ \A i \in 1..(Len(stack) - 1) : r # stack[i].headRoot
               /\ Len(stack) > 1 => r = stack[Len(stack) - 1].newHead
       IN  /\ \A r \in fcValid' \ fcValid : validStep /\ ownHead(r)
           /\ \A e \in payloadIDCache' \ payloadIDCache :
                 validStep /\ ownHead(e[2]) /\ e[3] = Top.payloadID]_vars

(* the recursive call of a recovery was answered VALID: the new head is    *)
(* valid and keys the cache entry, the invocation that was given the       *)
(* invalid head is still waiting                                           *)
C26_Witness ==
    /\ Nfu /\ ret.depth = 2 /\ ret.line = 167 /\ ret.status = "VALID"
    /\ Len(stack) = 1 /\ stack[1].pc = "afterRecurse"
    /\ stack[1].headRoot # ret.headRoot
    /\ ret.headRoot \in fcValid
    /\ \E e \in payloadIDCache : e[2] = ret.headRoot /\ e[3] = ret.pid
    /\ ~\E e \in payloadIDCache : e[2] = stack[1].headRoot

(* C27 (as claimed): for every state and slot, a slot of an epoch before   *)
(* the state's included, getPayloadAttribute returns a non-empty attribute *)
(* only if the tracked-proposer registry was consulted and answered for    *)
(* the slot's proposer, and the fee recipient of the attribute is that     *)
(* proposer's, never the zero value of a lookup that was not made.         *)
C27_AttributeOnlyForTrackedProposer ==
    (GpaReturned /\ ~gpa.res.attr.empty) =>
        LET lookups == gpa.res.lookups
        IN  /\ lookups # <<>>
            /\ lookups[Len(lookups)].proposer \in gpa.tracked
            /\ gpa.res.attr.suggestedFeeRecipient =
                  FeeRecipientOf(lookups[Len(lookups)].proposer)
            /\ gpa.res.attr.suggestedFeeRecipient # ZeroFeeRecipient

====
